---- MODULE Spec2Model ----
(***************************************************************************)
(* Ticket triage agent: the resilient router with its per-endpoint circuit *)
(* breaker (services/router.py), the retry decorator (utils/logger.py) and *)
(* the AI classifier with its cache and keyword fallback                   *)
(* (services/classifier.py).                                               *)
(*                                                                         *)
(* The program runs on one asyncio event loop: a coroutine runs atomically *)
(* between two awaits.  route_ticket has exactly one await (the HTTP       *)
(* request, router.py:335), so one route call is two atomic steps:         *)
(* RouteStart (entry .. request issued, or an early return) and            *)
(* RouteFinish (response or transport error .. return).  classify_ticket   *)
(* has no await at all (model.generate_content is a blocking call,         *)
(* classifier.py:341), so one classify call is one atomic step.            *)
(***************************************************************************)
EXTENDS Integers, Sequences, FiniteSets, TLC

VARIABLES
    circuit_breaker_state,   \* router.py:80  endpoint -> "absent" | "True" | "False"
    failure_counts,          \* router.py:81  endpoint -> count (dict.get(e, 0))
    last_failure_time,       \* router.py:82  endpoint -> time  (dict.get(e, 0))
    now,                     \* time.time(), in seconds
    pc,                      \* route task -> "idle" | "awaiting_http"
    call,                    \* route task -> the locals of its route call in flight
    event,                   \* history: the step just taken (a request issued, or a
                             \* return with what the call gave its caller)
    consec,                  \* history: endpoint -> delivery attempts without a 2xx
                             \* response since the last 2xx response or cool-down reset
    mappings,                \* the endpoints of the configured team mappings (read-only)
    _classification_cache,   \* classifier.py:50  cache key -> ClassificationResult
    cls_event,               \* history: the classify_ticket call just made
    inbox,                   \* the tickets this run receives (read-only)
    workflow,                \* webhook.py:37  background task -> its position, its
                             \* ProcessedTicket and the history of its steps
    team_mapping_rows        \* db/lookup.py:25  department -> endpoint of its active
                             \* team_mappings row, or "None" (read-only)

routerVars == <<circuit_breaker_state, failure_counts, last_failure_time, now,
                pc, call, event, consec, mappings>>

classifierVars == <<_classification_cache, cls_event, inbox>>

workflowVars == <<workflow, team_mapping_rows>>

vars == <<routerVars, classifierVars, workflowVars>>

(***************************************************************************)
(* Program constants and model bounds                                      *)
(***************************************************************************)
FailureThreshold == 5
CooldownSeconds == 300
max_attempts == 3

MaxTime == 301

\* The clock advances in steps that make an elapsed time of exactly
\* CooldownSeconds and of CooldownSeconds + 1 both happen.
Deltas == {CooldownSeconds, CooldownSeconds + 1}

Tasks == {"t1", "t2"}

(***************************************************************************)
(* Endpoints: literal URL strings, the keys of the three breaker dicts.    *)
(***************************************************************************)
\* router.py:74 (the Slack webhook default), db/lookup.py:113 (a seeded mapping)
\* and an endpoint string that urlparse rejects (the column is free text,
\* db/lookup.py:32).
SlackUrl       == "https://hooks.slack.com/services/YOUR/SLACK/WEBHOOK"
WebhookTestUrl == "https://webhook.site/facilities-test"
\* db/lookup.py:121, a second seeded mapping on the same host
WebhookSecurityUrl == "https://webhook.site/security-test"
BadUrl         == "http://[hooks.slack.com/services/YOUR/SLACK/WEBHOOK"

Endpoints == {SlackUrl, WebhookTestUrl, WebhookSecurityUrl, BadUrl}

\* The deployments considered: the endpoints that the team-mapping table names.
MappingSets == {{SlackUrl}, {WebhookTestUrl}, {BadUrl}, {SlackUrl, BadUrl}}

\* urllib.parse.urlparse(endpoint).netloc.lower(); urlparse raises ValueError
\* ("Invalid IPv6 URL") on a netloc with an unmatched bracket.
urlparse(endpoint) ==
    CASE endpoint = SlackUrl       -> [ok |-> TRUE,  netloc |-> "hooks.slack.com"]
      [] endpoint = WebhookTestUrl -> [ok |-> TRUE,  netloc |-> "webhook.site"]
      [] endpoint = WebhookSecurityUrl -> [ok |-> TRUE, netloc |-> "webhook.site"]
      [] endpoint = BadUrl         -> [ok |-> FALSE, netloc |-> ""]

\* The patterns of _get_system_from_endpoint that occur as substrings of a host.
PatternsIn(domain) ==
    CASE domain = "hooks.slack.com" -> {"slack.com"}
      [] domain = "webhook.site"    -> {"webhook.site"}
      [] OTHER                      -> {}

\* router.py:84-98, applied to a URL that urlparse accepted.
_get_system_from_endpoint(endpoint) ==
    LET domain == urlparse(endpoint).netloc
        has(p) == p \in PatternsIn(domain)
    IN  IF has("atlassian.net") \/ has("jira") THEN "jira"
        ELSE IF has("freshservice") THEN "freshservice"
        ELSE IF has("slack.com") THEN "slack"
        ELSE IF has("webhook.site") THEN "webhook_test"
        ELSE "unknown"

(***************************************************************************)
(* Circuit breaker.  The operators work on a record of the three dicts so  *)
(* that a handler can apply several of them in one atomic step.            *)
(***************************************************************************)
Breaker == [state |-> circuit_breaker_state,
            counts |-> failure_counts,
            last |-> last_failure_time]

\* Mutant: the cool-down ends when 300 seconds have passed, one second early.
_is_circuit_breaker_open_early_reset(br, endpoint, t) ==
    IF br.state[endpoint] = "absent"
    THEN [open |-> FALSE, br |-> br]
    ELSE IF br.counts[endpoint] < FailureThreshold
    THEN [open |-> FALSE, br |-> br]
    ELSE IF t - br.last[endpoint] >= CooldownSeconds
    THEN [open |-> FALSE,
          br |-> [br EXCEPT !.state[endpoint] = "False", !.counts[endpoint] = 0]]
    ELSE [open |-> br.state[endpoint] = "True", br |-> br]

\* router.py:236-253.  Gives the answer and the dicts as the check leaves them.
_is_circuit_breaker_open(br, endpoint, t) ==
    IF br.state[endpoint] = "absent"
    THEN [open |-> FALSE, br |-> br]
    ELSE IF br.counts[endpoint] < FailureThreshold
    THEN [open |-> FALSE, br |-> br]
    ELSE IF t - br.last[endpoint] > CooldownSeconds
    THEN [open |-> FALSE,
          br |-> [br EXCEPT !.state[endpoint] = "False", !.counts[endpoint] = 0]]
    ELSE [open |-> br.state[endpoint] = "True", br |-> br]

\* Mutant: a failure is counted and the time of the last failure is kept.
_record_failure_keeps_time(br, endpoint, t) ==
    LET n == br.counts[endpoint] + 1
    IN  [br EXCEPT !.counts[endpoint] = n,
                   !.state[endpoint] = IF n >= FailureThreshold THEN "True" ELSE @]

\* Mutant: the breaker opens when the count has passed the threshold.
_record_failure_opens_late(br, endpoint, t) ==
    LET n == br.counts[endpoint] + 1
    IN  [br EXCEPT !.counts[endpoint] = n,
                   !.last[endpoint] = t,
                   !.state[endpoint] = IF n > FailureThreshold THEN "True" ELSE @]

\* router.py:255-261
_record_failure(br, endpoint, t) ==
    LET n == br.counts[endpoint] + 1
    IN  [br EXCEPT !.counts[endpoint] = n,
                   !.last[endpoint] = t,
                   !.state[endpoint] = IF n >= FailureThreshold THEN "True" ELSE @]

\* Mutant: a success closes the breaker and keeps the failure count.
_record_success_keeps_count(br, endpoint) ==
    [br EXCEPT !.state[endpoint] = "False"]

\* Mutant: the breaker is kept per host, a success resets every endpoint of the
\* host.
_record_success_by_host(br, endpoint) ==
    [br EXCEPT
        !.counts = [e \in DOMAIN @ |->
                       IF urlparse(e).netloc = urlparse(endpoint).netloc
                       THEN 0 ELSE @[e]],
        !.state = [e \in DOMAIN @ |->
                      IF urlparse(e).netloc = urlparse(endpoint).netloc
                      THEN "False" ELSE @[e]]]

\* router.py:263-266
_record_success(br, endpoint) ==
    [br EXCEPT !.counts[endpoint] = 0, !.state[endpoint] = "False"]

(***************************************************************************)
(* Outbound HTTP: what the awaited client.request can give back.           *)
(***************************************************************************)
\* Response bodies by what response.json() and _extract_ticket_id do with them:
\*   "empty"             no content
\*   "object"            a JSON object in which no path finds an identifier,
\*                       such as {} or {"ticket": 5}
\*   "object_id"         a JSON object with a top-level "id" or "key" that is a
\*                       non-empty string or a non-zero number, and no
\*                       identifier under "ticket"
\*   "object_id_null"    the JSON object {"id": null}
\*   "object_ticket_id"  a JSON object with an identifier under "ticket" only,
\*                       such as {"ticket": {"id": 5}}
\*   "object_all_ids"    a JSON object with a top-level "id" and one under
\*                       "ticket", such as {"id": 1, "ticket": {"id": 2}}
\*   "object_generic_id" a JSON object in which only the generic path finds an
\*                       identifier: a top-level "ticket_id" or "number", or one
\*                       nested under "issue" or "data", such as
\*                       {"data": {"number": 7}}
\*   "json_array"        a JSON array or string holding none of the identifier
\*                       keys (parses; has no .get)
\*   "json_array_id"     a JSON array or string holding an identifier key, such
\*                       as ["id"] or "my id" (`in` is true, the subscript
\*                       raises TypeError)
\*   "json_number"       a JSON number, true, false or null (parses; `in` raises
\*                       TypeError)
\*   "text"              text that is not JSON, such as Slack's plain-text "ok"
\*   "bytes"             bytes that are not valid UTF-8: response.json() raises
\*                       UnicodeDecodeError, which is no JSONDecodeError
Bodies == {"empty", "object", "object_id", "object_id_null", "object_ticket_id",
           "object_all_ids", "object_generic_id", "json_array", "json_array_id",
           "json_number", "text", "bytes"}

Statuses == {200, 201, 500}

\* A response, a transport error (httpx.RequestError, timeouts included) or an
\* exception of another class raised by client.request (router.py:335-340).
HttpOutcomes ==
    {[kind |-> "RequestError", status |-> 0, body |-> "empty"],
     [kind |-> "Exception", status |-> 0, body |-> "empty"]}
        \cup [kind : {"response"}, status : Statuses, body : Bodies]

\* httpx.Response.is_success, which raise_for_status tests (router.py:349)
is_success(status) == status >= 200 /\ status <= 299

\* The body is a JSON object.
IsObject(body) ==
    body \in {"object", "object_id", "object_id_null", "object_ticket_id",
              "object_all_ids", "object_generic_id"}

\* response.json() returns a value
ParsesAsJson(body) ==
    IsObject(body) \/ body \in {"json_array", "json_array_id", "json_number"}

\* f"slack_{int(time.time())}" (router.py:432): the prefix and the digits of the
\* clock; the model keeps the form and not the digits.
SlackId(t) == <<"slack_", "digits">>

\* router.py:416-450.  [raises |-> TRUE] is an exception the function does not
\* catch (TypeError, UnicodeDecodeError); id is <<>> for None.  response.json()
\* is evaluated before the system is looked at.  On a value that is not an
\* object, .get raises AttributeError, which is caught (None); `key in value` is
\* evaluated first on the generic path and either raises TypeError (number, true,
\* false, null), or is true and the subscript raises TypeError (array or string
\* holding the key), or is false.  str(None) is the text "None".
_extract_ticket_id(body, system, t) ==
    IF body = "empty" THEN [raises |-> FALSE, id |-> <<>>]
    ELSE IF body = "bytes" THEN [raises |-> TRUE, id |-> <<>>]
    ELSE IF ~ParsesAsJson(body) THEN [raises |-> FALSE, id |-> <<>>]
    ELSE IF system = "jira"
    THEN [raises |-> FALSE,
          id |-> IF body \in {"object_id", "object_all_ids"} THEN <<"id">> ELSE <<>>]
    ELSE IF system = "freshservice"
    THEN [raises |-> FALSE,
          id |-> IF body \in {"object_ticket_id", "object_all_ids"}
                 THEN <<"id">> ELSE <<>>]
    ELSE IF system = "slack"
    THEN [raises |-> FALSE, id |-> SlackId(t)]
    ELSE IF body \in {"object_id", "object_ticket_id", "object_all_ids",
                      "object_generic_id"}
    THEN [raises |-> FALSE, id |-> <<"id">>]
    ELSE IF body = "object_id_null" THEN [raises |-> FALSE, id |-> <<"None">>]
    ELSE IF body \in {"json_number", "json_array_id"}
    THEN [raises |-> TRUE, id |-> <<>>]
    ELSE [raises |-> FALSE, id |-> <<>>]

(***************************************************************************)
(* route_ticket                                                            *)
(***************************************************************************)
Unbound == "<unbound>"

\* What a call gives its caller: a RoutingResult, or an exception.
\* http_status_code 0 stands for None, external_ticket_id <<>> for None.
RoutingResult(success, system_name, ext_id, error_message, status) ==
    [kind |-> "RoutingResult", exc |-> "None", success |-> success,
     system_name |-> system_name, external_ticket_id |-> ext_id,
     error_message |-> error_message, http_status_code |-> status]

Raised(exc) ==
    [kind |-> "raise", exc |-> exc, success |-> FALSE, system_name |-> "None",
     external_ticket_id |-> <<>>, error_message |-> "None", http_status_code |-> 0]

NoResult ==
    [kind |-> "none", exc |-> "None", success |-> FALSE, system_name |-> "None",
     external_ticket_id |-> <<>>, error_message |-> "None", http_status_code |-> 0]

\* router.py:373-414, the three except clauses.  Each records a failure and then
\* evaluates `system or "unknown"`; with the local `system` not yet assigned that
\* expression raises UnboundLocalError out of the handler.
ExceptHandler(br, endpoint, system, exc, status, t) ==
    LET br1 == _record_failure(br, endpoint, t)
        msg == CASE exc = "HTTPStatusError" -> "HTTP error"
                 [] exc = "RequestError"    -> "Request error"
                 [] OTHER                   -> "Unexpected error"
    IN  [br |-> br1,
         out |-> IF system = Unbound
                 THEN Raised("UnboundLocalError")
                 ELSE RoutingResult(FALSE, system, <<>>, msg,
                                    IF exc = "HTTPStatusError" THEN status ELSE 0)]

\* json.dumps(payload) (router.py:331) raises TypeError when the payload holds a
\* value that is not JSON-serialisable; only the generic transformer
\* (ticket.to_dict(), router.py:229-230) copies the free-form metadata.
PayloadSerialisable(ticket, system) ==
    system \in {"jira", "freshservice", "slack"} \/ ticket.metadata_serialisable

RouteTickets == [metadata_serialisable : BOOLEAN]

\* Mutant of RouteEntry: the short-circuited call is reported as delivered.
RouteEntry_short_circuit_succeeds(br, endpoint, ticket, t) ==
    LET chk == _is_circuit_breaker_open(br, endpoint, t)
        system == _get_system_from_endpoint(endpoint)
    IN  IF chk.open
        THEN [next |-> "done", br |-> chk.br, system |-> Unbound,
              out |-> RoutingResult(TRUE, "circuit_breaker", <<>>, "None", 0)]
        ELSE IF ~urlparse(endpoint).ok
        THEN LET h == ExceptHandler(chk.br, endpoint, Unbound, "ValueError", 0, t)
             IN  [next |-> "done", br |-> h.br, system |-> Unbound, out |-> h.out]
        ELSE IF ~PayloadSerialisable(ticket, system)
        THEN LET h == ExceptHandler(chk.br, endpoint, system, "TypeError", 0, t)
             IN  [next |-> "done", br |-> h.br, system |-> system, out |-> h.out]
        ELSE [next |-> "await", br |-> chk.br, system |-> system, out |-> NoResult]

\* Mutant of RouteEntry: a call rejected by the open breaker is recorded as a
\* failure.
RouteEntry_rejection_recorded(br, endpoint, ticket, t) ==
    LET chk == _is_circuit_breaker_open(br, endpoint, t)
        system == _get_system_from_endpoint(endpoint)
    IN  IF chk.open
        THEN [next |-> "done", br |-> _record_failure(chk.br, endpoint, t),
              system |-> Unbound,
              out |-> RoutingResult(FALSE, "circuit_breaker", <<>>,
                                    "Circuit breaker open", 0)]
        ELSE IF ~urlparse(endpoint).ok
        THEN LET h == ExceptHandler(chk.br, endpoint, Unbound, "ValueError", 0, t)
             IN  [next |-> "done", br |-> h.br, system |-> Unbound, out |-> h.out]
        ELSE IF ~PayloadSerialisable(ticket, system)
        THEN LET h == ExceptHandler(chk.br, endpoint, system, "TypeError", 0, t)
             IN  [next |-> "done", br |-> h.br, system |-> system, out |-> h.out]
        ELSE [next |-> "await", br |-> chk.br, system |-> system, out |-> NoResult]

\* router.py:302-340: from entry to the awaited request.  next is "await" (the
\* request was issued), or "done" with the outcome in out.
RouteEntry(br, endpoint, ticket, t) ==
    LET chk == _is_circuit_breaker_open(br, endpoint, t)
        system == _get_system_from_endpoint(endpoint)
    IN  IF chk.open
        THEN [next |-> "done", br |-> chk.br, system |-> Unbound,
              out |-> RoutingResult(FALSE, "circuit_breaker", <<>>,
                                    "Circuit breaker open", 0)]
        ELSE IF ~urlparse(endpoint).ok
        THEN LET h == ExceptHandler(chk.br, endpoint, Unbound, "ValueError", 0, t)
             IN  [next |-> "done", br |-> h.br, system |-> Unbound, out |-> h.out]
        ELSE IF ~PayloadSerialisable(ticket, system)
        THEN LET h == ExceptHandler(chk.br, endpoint, system, "TypeError", 0, t)
             IN  [next |-> "done", br |-> h.br, system |-> system, out |-> h.out]
        ELSE [next |-> "await", br |-> chk.br, system |-> system, out |-> NoResult]

\* router.py:335-371 and the except clauses: from the resumed await to the return.
RouteResume(br, endpoint, system, resp, t) ==
    IF resp.kind = "RequestError"
    THEN ExceptHandler(br, endpoint, system, "RequestError", 0, t)
    ELSE IF resp.kind = "Exception"
    THEN ExceptHandler(br, endpoint, system, "Exception", 0, t)
    ELSE IF ~is_success(resp.status)
    THEN ExceptHandler(br, endpoint, system, "HTTPStatusError", resp.status, t)
    ELSE LET ext == _extract_ticket_id(resp.body, system, t)
             br1 == _record_success(br, endpoint)
         IN  IF ext.raises
             THEN \* out of _extract_ticket_id (router.py:352), before
                  \* _record_success
                  ExceptHandler(br, endpoint, system,
                                IF resp.body = "bytes" THEN "UnicodeDecodeError"
                                ELSE "TypeError", 0, t)
             ELSE IF resp.body # "empty" /\ ~ParsesAsJson(resp.body)
             THEN \* response.json() at router.py:368, after _record_success
                  ExceptHandler(br1, endpoint, system, "JSONDecodeError", 0, t)
             ELSE [br |-> br1,
                   out |-> RoutingResult(TRUE, system, ext.id, "None", resp.status)]

\* utils/logger.py:182-240.  The decorator wraps the function in async_wrapper
\* only when the text 'async' occurs in str(func.__code__) (logger.py:240).  That
\* text reads '<code object NAME at 0x.., file "PATH", line N>': it names the
\* function and its file and says nothing of the function's kind, so for
\* route_ticket (services/router.py) and classify_ticket (services/classifier.py)
\* the test is false and sync_wrapper is what the decorator returns.
code_repr_has_async == FALSE

\* sync_wrapper calls func(), which for a coroutine function gives back the
\* coroutine object without running the body: tenacity sees a returned value on
\* the first attempt and never retries, and what the body raises when the caller
\* awaits the coroutine goes to the caller.  Under async_wrapper tenacity would
\* rerun the call when it raises one of `exceptions` and fewer than max_attempts
\* attempts were made.
RouterRetryOn == {"RequestError", "HTTPStatusError"}

retry_with_backoff(out, attempt, exceptions) ==
    IF /\ code_repr_has_async
       /\ out.kind = "raise"
       /\ out.exc \in exceptions
       /\ attempt < max_attempts
    THEN "retry"
    ELSE "return"

(***************************************************************************)
(* Router state machine                                                    *)
(***************************************************************************)
NoCall == [endpoint |-> "None", system |-> Unbound, attempt |-> 0, requests |-> 0,
           gate |-> "none"]

\* How the breaker stands for an endpoint at time t, as a caller sees it.
GateOf(br, endpoint, t) ==
    IF br.state[endpoint] = "True"
    THEN IF t - br.last[endpoint] > CooldownSeconds THEN "cooled" ELSE "open"
    ELSE "closed"

\* The record of a step of a route call: phase "entry" (RouteStart) or "resume"
\* (RouteFinish); op "request" (the step ended at the awaited HTTP request) or
\* "return" (the call ended, out is what the caller got); the inputs of the step;
\* gate, the breaker as it stood when the call was made; count_before, the
\* endpoint's failure count as the step began.
NoEvent == [phase |-> "none", op |-> "none", endpoint |-> "None",
            serialisable |-> TRUE, gate |-> "none", attempts |-> 0,
            requests |-> 0, count_before |-> 0, status |-> 0, body |-> "none",
            out |-> NoResult]

RouterInit ==
    /\ circuit_breaker_state = [e \in Endpoints |-> "absent"]
    /\ failure_counts = [e \in Endpoints |-> 0]
    /\ last_failure_time = [e \in Endpoints |-> 0]
    /\ now = 0
    /\ pc = [t \in Tasks |-> "idle"]
    /\ call = [t \in Tasks |-> NoCall]
    /\ event = NoEvent
    /\ consec = [e \in Endpoints |-> 0]
    /\ mappings \in MappingSets

SetBreaker(br) ==
    /\ circuit_breaker_state' = br.state
    /\ failure_counts' = br.counts
    /\ last_failure_time' = br.last

\* A caller awaits route_ticket(ticket, team_mapping): the decorated call runs the
\* body up to its first await, or to its end.
RouteStart(t) ==
    \E endpoint \in mappings, ticket \in RouteTickets :
        /\ pc[t] = "idle"
        /\ LET r == RouteEntry(Breaker, endpoint, ticket, now)
               wasReset == _is_circuit_breaker_open(Breaker, endpoint, now).br # Breaker
               gate == GateOf(Breaker, endpoint, now)
               awaits == r.next = "await"
           IN  /\ SetBreaker(r.br)
               /\ call' = [call EXCEPT ![t] =
                              IF awaits
                              THEN [endpoint |-> endpoint, system |-> r.system,
                                    attempt |-> 1, requests |-> 1, gate |-> gate]
                              ELSE NoCall]
               /\ pc' = [pc EXCEPT ![t] = IF awaits THEN "awaiting_http" ELSE "idle"]
               /\ event' = [phase |-> "entry",
                            op |-> IF awaits THEN "request" ELSE "return",
                            endpoint |-> endpoint,
                            serialisable |-> ticket.metadata_serialisable,
                            gate |-> gate, attempts |-> 1,
                            requests |-> IF awaits THEN 1 ELSE 0,
                            count_before |-> failure_counts[endpoint],
                            status |-> 0, body |-> "none", out |-> r.out]
               /\ consec' = [consec EXCEPT ![endpoint] =
                                IF ~awaits /\ r.out.system_name # "circuit_breaker"
                                THEN (IF wasReset THEN 0 ELSE @) + 1
                                ELSE IF wasReset THEN 0 ELSE @]
        /\ UNCHANGED <<now, mappings, classifierVars, workflowVars>>

\* The awaited request completes (a response, or a transport error such as a
\* timeout) and the body runs to its return.
RouteFinish(t) ==
    \E resp \in HttpOutcomes :
        /\ pc[t] = "awaiting_http"
        /\ LET e == call[t].endpoint
               r == RouteResume(Breaker, e, call[t].system, resp, now)
               again == retry_with_backoff(r.out, call[t].attempt, RouterRetryOn) = "retry"
           IN  /\ SetBreaker(r.br)
               /\ call' = [call EXCEPT ![t] =
                              IF again
                              THEN [@ EXCEPT !.attempt = @ + 1, !.requests = @ + 1]
                              ELSE NoCall]
               /\ pc' = [pc EXCEPT ![t] = IF again THEN "awaiting_http" ELSE "idle"]
               /\ event' = [phase |-> "resume",
                            op |-> IF again THEN "request" ELSE "return",
                            endpoint |-> e, serialisable |-> TRUE,
                            gate |-> call[t].gate,
                            attempts |-> call[t].attempt,
                            requests |-> call[t].requests,
                            count_before |-> failure_counts[e],
                            status |-> resp.status, body |-> resp.body,
                            out |-> IF again THEN NoResult ELSE r.out]
               /\ consec' = [consec EXCEPT ![e] =
                                IF resp.kind = "response" /\ is_success(resp.status)
                                THEN 0 ELSE @ + 1]
        /\ UNCHANGED <<now, mappings, classifierVars, workflowVars>>

\* time passes
Tick ==
    \E d \in Deltas :
        /\ now + d <= MaxTime
        /\ now' = now + d
        /\ event' = NoEvent
        /\ UNCHANGED <<circuit_breaker_state, failure_counts, last_failure_time,
                       pc, call, consec, mappings, classifierVars, workflowVars>>

RouterNext ==
    \/ \E t \in Tasks : RouteStart(t)
    \/ \E t \in Tasks : RouteFinish(t)
    \/ Tick

(***************************************************************************)
(* Classifier (services/classifier.py)                                     *)
(*                                                                         *)
(* Text is a tuple of one-character strings, so that str.lower() and the   *)
(* substring test `kw in combined_text` are computed character by          *)
(* character.                                                              *)
(***************************************************************************)
model_name == "gemini-1.5-pro"
fallback_model == "fallback-keywords"

\* str.lower() on one character
LowerChar(c) ==
    CASE c = "A" -> "a"
      [] c = "B" -> "b"
      [] c = "C" -> "c"
      [] c = "D" -> "d"
      [] c = "E" -> "e"
      [] c = "F" -> "f"
      [] c = "G" -> "g"
      [] c = "H" -> "h"
      [] c = "I" -> "i"
      [] c = "J" -> "j"
      [] c = "K" -> "k"
      [] c = "L" -> "l"
      [] c = "M" -> "m"
      [] c = "N" -> "n"
      [] c = "O" -> "o"
      [] c = "P" -> "p"
      [] c = "Q" -> "q"
      [] c = "R" -> "r"
      [] c = "S" -> "s"
      [] c = "T" -> "t"
      [] c = "U" -> "u"
      [] c = "V" -> "v"
      [] c = "W" -> "w"
      [] c = "X" -> "x"
      [] c = "Y" -> "y"
      [] c = "Z" -> "z"
      [] OTHER -> c

lower(text) == [i \in 1..Len(text) |-> LowerChar(text[i])]

\* Python's `kw in text` for strings
Contains(text, kw) ==
    \E i \in 1..(Len(text) - Len(kw) + 1) :
        \A k \in 1..Len(kw) : text[i + k - 1] = kw[k]

\* classifier.py:266-272
it_keywords ==
    {<<"v", "p", "n">>,
     <<"c", "o", "m", "p", "u", "t", "e", "r">>,
     <<"l", "a", "p", "t", "o", "p">>,
     <<"p", "a", "s", "s", "w", "o", "r", "d">>,
     <<"e", "m", "a", "i", "l">>,
     <<"n", "e", "t", "w", "o", "r", "k">>,
     <<"w", "i", "f", "i">>,
     <<"s", "o", "f", "t", "w", "a", "r", "e">>,
     <<"l", "o", "g", "i", "n">>,
     <<"s", "y", "s", "t", "e", "m">>}

hr_keywords ==
    {<<"b", "e", "n", "e", "f", "i", "t", "s">>,
     <<"p", "a", "y", "r", "o", "l", "l">>,
     <<"v", "a", "c", "a", "t", "i", "o", "n">>,
     <<"p", "t", "o">>,
     <<"o", "n", "b", "o", "a", "r", "d", "i", "n", "g">>,
     <<"t", "r", "a", "i", "n", "i", "n", "g">>,
     <<"e", "m", "p", "l", "o", "y", "m", "e", "n", "t">>,
     <<"h", "i", "r", "i", "n", "g">>}

facilities_keywords ==
    {<<"o", "f", "f", "i", "c", "e">>,
     <<"r", "o", "o", "m">>,
     <<"b", "u", "i", "l", "d", "i", "n", "g">>,
     <<"p", "a", "r", "k", "i", "n", "g">>,
     <<"h", "e", "a", "t", "i", "n", "g">>,
     <<"c", "o", "o", "l", "i", "n", "g">>,
     <<"m", "a", "i", "n", "t", "e", "n", "a", "n", "c", "e">>,
     <<"c", "l", "e", "a", "n", "i", "n", "g">>}

security_keywords ==
    {<<"p", "h", "i", "s", "h", "i", "n", "g">>,
     <<"m", "a", "l", "w", "a", "r", "e">>,
     <<"s", "u", "s", "p", "i", "c", "i", "o", "u", "s">>,
     <<"b", "r", "e", "a", "c", "h">>,
     <<"a", "c", "c", "e", "s", "s">>,
     <<"b", "a", "d", "g", "e">>,
     <<"s", "e", "c", "u", "r", "i", "t", "y">>}

finance_keywords ==
    {<<"e", "x", "p", "e", "n", "s", "e">>,
     <<"i", "n", "v", "o", "i", "c", "e">>,
     <<"p", "a", "y", "m", "e", "n", "t">>,
     <<"b", "u", "d", "g", "e", "t">>,
     <<"p", "r", "o", "c", "u", "r", "e", "m", "e", "n", "t">>,
     <<"v", "e", "n", "d", "o", "r">>,
     <<"r", "e", "i", "m", "b", "u", "r", "s", "e", "m", "e", "n", "t">>}

legal_keywords ==
    {<<"c", "o", "n", "t", "r", "a", "c", "t">>,
     <<"c", "o", "m", "p", "l", "i", "a", "n", "c", "e">>,
     <<"g", "d", "p", "r">>,
     <<"p", "r", "i", "v", "a", "c", "y">>,
     <<"l", "e", "g", "a", "l">>,
     <<"l", "a", "w", "s", "u", "i", "t">>,
     <<"r", "e", "g", "u", "l", "a", "t", "i", "o", "n">>}

\* classifier.py:64-86
team_mappings(department) ==
    CASE department = "IT" ->
             <<"it_support_team", "network_team", "security_team", "infrastructure_team">>
      [] department = "HR" ->
             <<"hr_operations", "recruiting_team", "benefits_team", "employee_relations">>
      [] department = "FACILITIES" ->
             <<"facilities_management", "maintenance_team", "office_services">>
      [] department = "FINANCE" ->
             <<"finance_team", "accounting_team", "procurement_team">>
      [] department = "LEGAL" ->
             <<"legal_team", "compliance_team", "contracts_team">>
      [] department = "SECURITY" ->
             <<"physical_security", "infosec_team", "compliance_security">>
      [] department = "GENERAL" ->
             <<"general_support", "admin_team">>

\* models/ticket.py:29-37
DepartmentType == {"IT", "HR", "FINANCE", "FACILITIES", "LEGAL", "SECURITY", "GENERAL"}

\* models/ticket.py:140-151.  confidence_score is in hundredths (30 is 0.3).
ClassificationResult(department, assigned_to, confidence, reasoning, ms, version) ==
    [kind |-> "ClassificationResult", department |-> department,
     assigned_to |-> assigned_to, confidence_score |-> confidence,
     reasoning |-> reasoning, processing_time_ms |-> ms, model_version |-> version]

\* The order in which the scores dict is built (classifier.py:275-282); max()
\* returns the first key with the greatest score.
ScoreOrder == <<"IT", "HR", "FACILITIES", "SECURITY", "FINANCE", "LEGAL">>

\* classifier.py:261-263
combined_text(ticket) == lower(ticket.title) \o <<" ">> \o lower(ticket.description)

\* classifier.py:276-281: sum(1 for kw in keywords if kw in combined_text)
Score(text, keywords) == Cardinality({kw \in keywords : Contains(text, kw)})

\* classifier.py:275-282: the scores dict, in the order it is built
ScoresOf(text) ==
    <<Score(text, it_keywords), Score(text, hr_keywords),
      Score(text, facilities_keywords), Score(text, security_keywords),
      Score(text, finance_keywords), Score(text, legal_keywords)>>

\* min(a, b) and max(a, b) on hundredths
Min(a, b) == IF a <= b THEN a ELSE b
Max(a, b) == IF a >= b THEN a ELSE b

\* Mutant: among equal scores the last department wins.
FirstMax_last(scores) ==
    CHOOSE i \in 1..Len(scores) :
        /\ \A j \in 1..Len(scores) : scores[j] <= scores[i]
        /\ \A j \in (i + 1)..Len(scores) : scores[j] < scores[i]

\* classifier.py:285: max(scores.keys(), key=...) gives the first key, in the
\* order of ScoreOrder, that has the greatest score.
FirstMax(scores) ==
    CHOOSE i \in 1..Len(scores) :
        /\ \A j \in 1..Len(scores) : scores[j] <= scores[i]
        /\ \A j \in 1..(i - 1) : scores[j] < scores[i]

\* Mutant: the confidence is not capped at 0.7.
FallbackFor_uncapped(best_department, best_score) ==
    IF best_score = 0
    THEN ClassificationResult("GENERAL", team_mappings("GENERAL")[1], 30,
                              <<"fallback", best_score, "GENERAL">>, 0, fallback_model)
    ELSE ClassificationResult(best_department, team_mappings(best_department)[1],
                              40 + best_score * 10,
                              <<"fallback", best_score, best_department>>,
                              0, fallback_model)

\* classifier.py:287-307: the result for the best department and its score
FallbackFor(best_department, best_score) ==
    IF best_score = 0
    THEN ClassificationResult("GENERAL", team_mappings("GENERAL")[1], 30,
                              <<"fallback", best_score, "GENERAL">>, 0, fallback_model)
    ELSE ClassificationResult(best_department, team_mappings(best_department)[1],
                              Min(70, 40 + best_score * 10),
                              <<"fallback", best_score, best_department>>,
                              0, fallback_model)

FallbackFromScores(scores, best_i) == FallbackFor(ScoreOrder[best_i], scores[best_i])

FallbackFromText(scores) == FallbackFromScores(scores, FirstMax(scores))

\* classifier.py:256-307.  processing_time_ms is 0 as constructed.
_create_fallback_classification(ticket) == FallbackFromText(ScoresOf(combined_text(ticket)))

(***************************************************************************)
(* The backend's answer.  A response text is a tuple of tokens: a brace,   *)
(* a run of other characters ("txt"), white space ("ws"), or the members   *)
(* of a JSON object ("members", with what they hold).                      *)
(***************************************************************************)
RequiredFields == {"department", "team", "confidence", "reasoning"}

NoMembers == [has |-> {}, department |-> "", team |-> "", confidence |-> 0,
              numeric |-> TRUE, reasoning_is_text |-> TRUE]

Tok(k) == [tok |-> k, m |-> NoMembers]
Members(m) == [tok |-> "members", m |-> m]

\* "department": "IT", "team": "network_team", "confidence": 0.95, "reasoning": "..."
GoodMembers == [has |-> RequiredFields, department |-> "IT", team |-> "network_team",
                confidence |-> 95, numeric |-> TRUE, reasoning_is_text |-> TRUE]
\* no "team" member
MissingTeam == [GoodMembers EXCEPT !.has = RequiredFields \ {"team"}]
\* an unknown department, a team of no list, a confidence of 1.5
Coerced == [GoodMembers EXCEPT !.department = "MARKETING", !.team = "growth_team",
                               !.confidence = 150]
\* a team of another department's list, a confidence of -0.2
Misfit == [GoodMembers EXCEPT !.team = "hr_operations", !.confidence = -20]
\* "confidence": "high"
ConfidenceNotNumeric == [GoodMembers EXCEPT !.numeric = FALSE]
\* "reasoning": null
ReasoningNull == [GoodMembers EXCEPT !.department = "HR", !.team = "hr_operations",
                                     !.reasoning_is_text = FALSE]

Object(m) == <<Tok("{"), Members(m), Tok("}")>>

\* What model.generate_content (classifier.py:341-349) can do: raise, or give a
\* response whose text is one of these.
BackendOutcomes ==
    {[kind |-> "error", text |-> <<>>]} \cup
    [kind : {"text"},
     text : {<<>>,                                              \* empty
             <<Tok("ws")>>,                                     \* blank
             <<Tok("txt")>>,                                    \* prose, no JSON
             Object(GoodMembers),
             <<Tok("txt")>> \o Object(GoodMembers) \o <<Tok("txt"), Tok("ws")>>,
             Object(GoodMembers) \o <<Tok("txt")>> \o Object(Coerced),
             <<Tok("{"), Tok("}")>>,
             Object(MissingTeam),
             Object(Coerced),
             Object(Misfit),
             Object(ConfidenceNotNumeric),
             Object(ReasoningNull)}]

\* str.strip(): the text from its first to its last token that is not white space
strip(text) ==
    LET inked == {i \in 1..Len(text) : text[i].tok # "ws"}
    IN  IF inked = {} THEN <<>>
        ELSE SubSeq(text, CHOOSE i \in inked : \A j \in inked : i <= j,
                          CHOOSE i \in inked : \A j \in inked : j <= i)

\* str.find and str.rfind of a one-character token, 1-based; 0 when absent
find(text, k) ==
    IF \E i \in 1..Len(text) : text[i].tok = k
    THEN CHOOSE i \in 1..Len(text) :
             text[i].tok = k /\ \A j \in 1..(i - 1) : text[j].tok # k
    ELSE 0

rfind(text, k) ==
    IF \E i \in 1..Len(text) : text[i].tok = k
    THEN CHOOSE i \in 1..Len(text) :
             text[i].tok = k /\ \A j \in (i + 1)..Len(text) : text[j].tok # k
    ELSE 0

\* json.loads of a slice that starts with "{": it parses when the slice is exactly
\* one object.
json_loads(content) ==
    IF Len(content) = 3 /\ content[1].tok = "{" /\ content[2].tok = "members"
       /\ content[3].tok = "}"
    THEN [ok |-> TRUE, m |-> content[2].m]
    ELSE IF Len(content) = 2 /\ content[1].tok = "{" /\ content[2].tok = "}"
    THEN [ok |-> TRUE, m |-> NoMembers]
    ELSE [ok |-> FALSE, m |-> NoMembers]

NoParse == [ok |-> FALSE, department |-> "", team |-> "", confidence |-> 0,
            reasoning_is_text |-> TRUE]

\* Mutant: the team the backend named is kept.
TeamFor_keeps_team(team, available_teams) == team

\* classifier.py:239-245: a team outside the department's list becomes its first
TeamFor(team, available_teams) ==
    IF \E i \in 1..Len(available_teams) : available_teams[i] = team
    THEN team
    ELSE available_teams[1]

\* Mutant: the confidence is not clamped.
ValidatedAs_unclamped(m, department) ==
    [ok |-> TRUE, department |-> department,
     team |-> TeamFor(m.team, team_mappings(department)),
     confidence |-> m.confidence,
     reasoning_is_text |-> m.reasoning_is_text]

\* classifier.py:233-247: the confidence is clamped, the team checked
ValidatedAs(m, department) ==
    [ok |-> TRUE, department |-> department,
     team |-> TeamFor(m.team, team_mappings(department)),
     confidence |-> Max(0, Min(100, m.confidence)),
     reasoning_is_text |-> m.reasoning_is_text]

\* classifier.py:216-247: a missing member gives None; an unknown department
\* becomes GENERAL; float() of a confidence that is no number raises, which the
\* function's except turns into None.
ValidateMembers(m) ==
    IF ~(RequiredFields \subseteq m.has) THEN NoParse
    ELSE IF ~m.numeric THEN NoParse
    ELSE ValidatedAs(m, IF m.department \in DepartmentType THEN m.department
                        ELSE "GENERAL")

ParseLoaded(loaded) == IF loaded.ok THEN ValidateMembers(loaded.m) ELSE NoParse

\* classifier.py:205-214: the slice from the first "{" to the last "}"
ParseBetween(text, start_idx, end_idx) ==
    IF start_idx = 0 \/ end_idx = 0 THEN NoParse
    ELSE ParseLoaded(json_loads(SubSeq(text, start_idx, end_idx)))

ParseStripped(text) == ParseBetween(text, find(text, "{"), rfind(text, "}"))

\* classifier.py:195-254.  ok = FALSE is the None the function returns.
_parse_classification_response(response_text) == ParseStripped(strip(response_text))

(***************************************************************************)
(* classify_ticket                                                         *)
(***************************************************************************)
\* Tickets: title, description and priority (email and metadata play no part).
Str_VPN == <<"V", "P", "N">>
Str_vpn == <<"v", "p", "n">>
Str_down == <<"d", "o", "w", "n">>
Str_laptop == <<"l", "a", "p", "t", "o", "p">>
Str_hello == <<"h", "e", "l", "l", "o">>
Str_wifi_login == <<"w", "i", "f", "i", " ", "l", "o", "g", "i", "n">>
Str_password_email_vpn == <<"p", "a", "s", "s", "w", "o", "r", "d", " ", "e", "m", "a", "i", "l", " ", "v", "p", "n">>
Str_payroll == <<"p", "a", "y", "r", "o", "l", "l">>
Str_vacation == <<"v", "a", "c", "a", "t", "i", "o", "n">>
Str_office == <<"o", "f", "f", "i", "c", "e">>
Str_contract == <<"c", "o", "n", "t", "r", "a", "c", "t">>
Str_badge_access == <<"B", "a", "d", "g", "e", " ", "A", "c", "c", "e", "s", "s">>
Str_invoice == <<"i", "n", "v", "o", "i", "c", "e">>
Str_gdpr == <<"G", "D", "P", "R">>
Str_parking == <<"p", "a", "r", "k", "i", "n", "g">>
Str_phishing == <<"p", "h", "i", "s", "h", "i", "n", "g">>
Str_budget_vendor == <<"b", "u", "d", "g", "e", "t", " ", "v", "e", "n", "d", "o", "r">>
Str_privacy_legal == <<"p", "r", "i", "v", "a", "c", "y", " ", "l", "e", "g", "a", "l">>
Str_payroll_vacation == <<"p", "a", "y", "r", "o", "l", "l", " ", "v", "a", "c", "a", "t", "i", "o", "n">>

Ticket(title, description, priority) ==
    [title |-> title, description |-> description, priority |-> priority]

\* The tickets a run receives: two that differ in priority only, two that differ
\* in letter case only, and pairs with different content.
Inboxes ==
    {{Ticket(Str_VPN, Str_down, "medium"), Ticket(Str_VPN, Str_down, "high")},
     {Ticket(Str_VPN, Str_down, "medium"), Ticket(Str_vpn, Str_down, "medium")},
     {Ticket(Str_VPN, Str_down, "medium"), Ticket(Str_laptop, Str_down, "low")},
     {Ticket(Str_laptop, Str_down, "low"), Ticket(Str_hello, Str_down, "medium")}}

\* Titles and descriptions for the keyword fallback on its own: they match no
\* keyword, one, several of one department, or keywords of several departments.
FallbackTitles ==
    {Str_VPN, Str_laptop, Str_hello, Str_wifi_login, Str_payroll, Str_office,
     Str_payroll_vacation, Str_badge_access, Str_invoice, Str_gdpr}

FallbackDescriptions ==
    {Str_down, Str_password_email_vpn, Str_vacation, Str_contract, Str_laptop,
     Str_parking, Str_phishing, Str_budget_vendor, Str_privacy_legal, Str_hello}

\* int((time.time() - start_time) * 1000): what a reading of the clock can give
ProcessingTimes == {0, 12}

\* A call reads the clock when it builds the backend's result (classifier.py:362)
\* and again in its except clause (classifier.py:389); the clock does not run
\* backwards.  ms.result is the first reading, ms.fallback the later one.
ClockReadings ==
    {c \in [result : ProcessingTimes, fallback : ProcessingTimes] :
        c.result <= c.fallback}

NoClock == [result |-> 0, fallback |-> 0]

\* Mutant: the key also depends on the ticket's priority.
_generate_cache_key_with_priority(ticket) ==
    <<lower(ticket.title) \o <<" ">> \o lower(ticket.description), ticket.priority>>

\* classifier.py:188-193.  hash() of the content string, taken as injective: the
\* key is the content.
_generate_cache_key(ticket) ==
    <<lower(ticket.title) \o <<" ">> \o lower(ticket.description)>>

ClsRaised(exc) ==
    [kind |-> "raise", exc |-> exc, department |-> "None", assigned_to |-> "None",
     confidence_score |-> 0, reasoning |-> <<>>, processing_time_ms |-> 0,
     model_version |-> "None"]

NoClassification ==
    [kind |-> "none", department |-> "None", assigned_to |-> "None",
     confidence_score |-> 0, reasoning |-> <<>>, processing_time_ms |-> 0,
     model_version |-> "None"]

\* Mutant: the except clause lets the exception go.
ClassifyExcept_reraise(ticket, ms) == ClsRaised("Exception")

\* classifier.py:384-392: the except clause of classify_ticket
ClassifyExcept(ticket, ms) ==
    [_create_fallback_classification(ticket) EXCEPT !.processing_time_ms = ms]

\* classifier.py:374: self._classification_cache[cache_key] = result
CacheStore(cache, cache_key, result) ==
    [k \in DOMAIN cache \cup {cache_key} |-> IF k = cache_key THEN result ELSE cache[k]]

\* classifier.py:374-382: the result is cached, logged and returned.  Logging
\* takes len(reasoning) (utils/logger.py:300), which raises TypeError when the
\* reasoning is no string: the result is cached all the same, with the duration
\* of the first reading, and the fallback returned carries the later one.
ClassifyResult(cache, cache_key, ticket, ms, loggable, result) ==
    [cache |-> CacheStore(cache, cache_key, result), calls |-> 1,
     out |-> IF loggable THEN result ELSE ClassifyExcept(ticket, ms.fallback)]

\* Mutant: the keyword fallback for a text the parser turned down is cached.
ClassifyParsed_caches_fallback(cache, cache_key, ticket, ms, parsed) ==
    IF ~parsed.ok
    THEN [cache |-> CacheStore(cache, cache_key, _create_fallback_classification(ticket)),
          calls |-> 1, out |-> _create_fallback_classification(ticket)]
    ELSE ClassifyResult(cache, cache_key, ticket, ms, parsed.reasoning_is_text,
                        ClassificationResult(parsed.department, parsed.team,
                                             parsed.confidence, <<"ai">>, ms.result,
                                             model_name))

\* classifier.py:355-372
ClassifyParsed(cache, cache_key, ticket, ms, parsed) ==
    IF ~parsed.ok
    THEN [cache |-> cache, calls |-> 1, out |-> _create_fallback_classification(ticket)]
    ELSE ClassifyResult(cache, cache_key, ticket, ms, parsed.reasoning_is_text,
                        ClassificationResult(parsed.department, parsed.team,
                                             parsed.confidence, <<"ai">>, ms.result,
                                             model_name))

\* classifier.py:335-356: the backend raised, or gave an empty text for which
\* the body raises Exception("Empty response from Gemini API")
ClassifyMiss(cache, cache_key, ticket, backend, ms) ==
    IF backend.kind = "error" \/ backend.text = <<>>
    THEN [cache |-> cache, calls |-> 1, out |-> ClassifyExcept(ticket, ms.fallback)]
    ELSE ClassifyParsed(cache, cache_key, ticket, ms,
                        _parse_classification_response(backend.text))

\* classifier.py:328-333
ClassifyKeyed(cache, cache_key, ticket, backend, ms) ==
    IF cache_key \in DOMAIN cache
    THEN [cache |-> cache, calls |-> 0, out |-> cache[cache_key]]
    ELSE ClassifyMiss(cache, cache_key, ticket, backend, ms)

\* classifier.py:324-392: one run of the body.  calls is the number of backend
\* invocations it made.
ClassifyBody(cache, ticket, backend, ms) ==
    ClassifyKeyed(cache, _generate_cache_key(ticket), ticket, backend, ms)

ClassifierRetryOn == {"Exception"}

\* The decorated call (classifier.py:309-311): the body, run again while
\* retry_with_backoff asks for it, which it can do after the first and after the
\* second of max_attempts = 3 attempts.  n counts the backend invocations of the
\* attempts before.
ThirdAttempt(n, r) == [r EXCEPT !.calls = n + @]

SecondAttempt(n, r, ticket, backend, ms) ==
    IF retry_with_backoff(r.out, 2, ClassifierRetryOn) = "return"
    THEN [r EXCEPT !.calls = n + @]
    ELSE ThirdAttempt(n + r.calls, ClassifyBody(r.cache, ticket, backend, ms))

FirstAttempt(r, ticket, backend, ms) ==
    IF retry_with_backoff(r.out, 1, ClassifierRetryOn) = "return"
    THEN r
    ELSE SecondAttempt(r.calls, ClassifyBody(r.cache, ticket, backend, ms),
                       ticket, backend, ms)

ClassifyCall(cache, ticket, backend, ms) ==
    FirstAttempt(ClassifyBody(cache, ticket, backend, ms), ticket, backend, ms)

(***************************************************************************)
(* Classifier state machine                                                *)
(***************************************************************************)
NoTicket == Ticket(<<>>, <<>>, "None")
NoBackend == [kind |-> "none", text |-> <<>>]

\* cls_event before any call
NoClsEvent ==
    [op |-> "none", ticket |-> NoTicket, backend |-> NoBackend, ms |-> NoClock,
     calls |-> 0, out |-> NoClassification,
     repeat |-> FALSE, prev_out |-> NoClassification]

ClassifierInit ==
    /\ _classification_cache = <<>>
    /\ cls_event = NoClsEvent
    /\ inbox \in Inboxes

\* What a call leaves behind.  cls_event keeps the call's inputs and result,
\* whether the call before it had the same title and description, and what that
\* call returned.
ClassifyReturn(ticket, backend, ms, r) ==
    /\ _classification_cache' = r.cache
    /\ cls_event' =
           [op |-> "classify", ticket |-> ticket,
            backend |-> IF r.calls = 0 THEN NoBackend ELSE backend,
            ms |-> IF r.calls = 0 THEN NoClock ELSE ms,
            calls |-> r.calls, out |-> r.out,
            repeat |-> /\ cls_event.op = "classify"
                       /\ cls_event.ticket.title = ticket.title
                       /\ cls_event.ticket.description = ticket.description,
            prev_out |-> cls_event.out]
    /\ UNCHANGED <<inbox, routerVars, workflowVars>>

\* One call of classify_ticket.  The body has no await, so a call is one step.
Classify ==
    \E ticket \in inbox, backend \in BackendOutcomes, ms \in ClockReadings :
        ClassifyReturn(ticket, backend, ms,
                       ClassifyCall(_classification_cache, ticket, backend, ms))

\* clear_cache (classifier.py:405-407), a public method no code of the repository
\* calls: it empties the cache.  cls_event records that the last operation was not
\* a call of classify_ticket.
ClearCache ==
    /\ _classification_cache' = <<>>
    /\ cls_event' = [NoClsEvent EXCEPT !.op = "clear_cache"]
    /\ UNCHANGED <<inbox, routerVars, workflowVars>>

ClassifierNext == Classify \/ ClearCache

\* The keyword fallback called on its own (classifier.py:256-307)
FallbackCall ==
    \E title \in FallbackTitles, description \in FallbackDescriptions :
        /\ cls_event' = [NoClsEvent EXCEPT
                            !.op = "fallback",
                            !.ticket = Ticket(title, description, "medium"),
                            !.out = _create_fallback_classification(
                                        Ticket(title, description, "medium"))]
        /\ UNCHANGED <<_classification_cache, inbox, routerVars, workflowVars>>

FallbackNext == FallbackCall

(***************************************************************************)
(* Ticket workflow (routers/webhook.py, process_ticket_workflow)           *)
(*                                                                         *)
(* create_ticket queues one background task per ticket; the tasks run on   *)
(* the one event loop.  A task gives the loop up at its awaits: the        *)
(* mapping lookup, the HTTP request inside route_ticket and the audit-log  *)
(* write.  model.generate_content (classifier.py:341) is a plain call: the *)
(* loop's thread stays inside it until the backend has answered, so while  *)
(* a task is at "classifying" no other task takes a step.                  *)
(***************************************************************************)
Workflows == {"w1", "w2"}

NoWorkflow ==
    [pc |-> "none", ticket |-> NoTicket, status |-> "received", department |-> "None",
     routing_error |-> <<>>, routed_to_system |-> "None", external_ticket_id |-> <<>>,
     endpoint |-> "None", system |-> Unbound, attempt |-> 0, routed |-> NoResult,
     logged |-> "None", trace |-> <<>>]

\* ProcessedTicket.from_incoming (models/ticket.py:99-110): status RECEIVED,
\* nothing classified or routed.  routed is the RoutingResult route_ticket gave,
\* logged the status in the ticket's audit-log row, trace the steps taken.
NewWorkflow(ticket) == [NoWorkflow EXCEPT !.pc = "new", !.ticket = ticket]

\* What arrives, and the team_mappings table, in a run
WorkflowTickets ==
    {[w1 |-> Ticket(Str_VPN, Str_down, "medium"), w2 |-> Ticket(Str_VPN, Str_down, "high")],
     [w1 |-> Ticket(Str_laptop, Str_down, "low"), w2 |-> Ticket(Str_hello, Str_down, "medium")]}

MappingTables ==
    {[d \in DepartmentType |-> IF d = "IT" THEN WebhookTestUrl ELSE "None"],
     [d \in DepartmentType |-> IF d = "IT" THEN BadUrl
                               ELSE IF d = "GENERAL" THEN SlackUrl ELSE "None"]}

WorkflowBackendOutcomes ==
    {b \in BackendOutcomes :
        \/ b.kind = "error"
        \/ b.text \in {Object(GoodMembers), Object(Coerced)}}

WorkflowHttpOutcomes ==
    {o \in HttpOutcomes :
        \/ o.kind = "RequestError"
        \/ o.status = 500 /\ o.body = "empty"
        \/ o.status = 200 /\ o.body \in {"object_id", "text"}}

\* The payload of a ticket that came in as JSON is JSON-serialisable.
WorkflowRouteTicket == [metadata_serialisable |-> TRUE]

\* db/lookup.py:153-209: the endpoint of the department's mapping, "None" when it
\* has no active row, or a database error
LookupOutcomes(rows, department) == {rows[department], "error"}

Trace(w, steps) == [w EXCEPT !.trace = @ \o steps]

\* Mutant: the exception leaves the workflow, the ticket as it was.
WorkflowExcept_reraises(w, exc, step) ==
    [w EXCEPT !.pc = "raised", !.trace = @ \o <<step>>]

\* webhook.py:129-141: the except clause, up to its awaited audit-log write
WorkflowExcept(w, exc, step) ==
    [w EXCEPT !.status = "failed", !.routing_error = <<"Processing error", exc>>,
              !.pc = "awaiting_log_in_except", !.trace = @ \o <<step, "log_called">>]

\* Mutant: the ticket is routed to an endpoint before any mapping was looked up.
WorkflowClassified_routes_first(w, result) ==
    [w EXCEPT !.department = result.department, !.status = "classified",
              !.pc = "awaiting_http", !.endpoint = SlackUrl, !.system = "slack",
              !.attempt = 1,
              !.trace = @ \o <<"classify_returned", "route_called", "http_request">>]

\* webhook.py:61-78: the classification is copied to the ticket and the mapping
\* lookup awaited
WorkflowClassified(w, result) ==
    IF result.kind = "raise"
    THEN WorkflowExcept(w, result.exc, "classify_raised")
    ELSE [w EXCEPT !.department = result.department, !.status = "classified",
                   !.pc = "awaiting_lookup",
                   !.trace = @ \o <<"classify_returned", "lookup_called">>]

\* webhook.py:80-86: no mapping
WorkflowNoMapping(w) ==
    [w EXCEPT !.status = "failed",
              !.routing_error = <<"No team mapping found for department", w.department>>,
              !.pc = "awaiting_log",
              !.trace = @ \o <<"lookup_absent", "log_called">>]

\* webhook.py:95-122: the routing result is copied to the ticket and the audit-log
\* write awaited
WorkflowRouted(w, out) ==
    IF out.kind = "raise"
    THEN WorkflowExcept(w, out.exc, "route_raised")
    ELSE [w EXCEPT !.status = IF out.success THEN "routed" ELSE "failed",
                   !.routing_error = IF out.success THEN @ ELSE <<out.error_message>>,
                   !.routed_to_system = out.system_name,
                   !.external_ticket_id = IF out.success THEN out.external_ticket_id ELSE @,
                   !.routed = out, !.pc = "awaiting_log",
                   !.trace = @ \o <<"route_returned", "log_called">>]

\* db/lookup.py:245-275: the row of the ticket is written at the awaited commit;
\* log_ticket has not returned yet
WorkflowLogCommitted(w) == [w EXCEPT !.logged = w.status]

\* db/lookup.py:242 and 275-277: the session is closed on leaving the
\* `async with`, log_ticket returns and the workflow returns the ticket
WorkflowLogged(w) ==
    [w EXCEPT !.pc = "done", !.trace = @ \o <<"log_returned">>]

\* The loop's thread is inside no blocking call.
LoopFree == \A q \in Workflows : workflow[q].pc # "classifying"

SetWorkflow(p, w) == workflow' = [workflow EXCEPT ![p] = w]

\* webhook.py:45-59 and classifier.py:324-333: the task starts and calls
\* classify_ticket, which returns a cached result or goes on to the backend.
WorkflowStartKeyed(p, w, cache_key) ==
    /\ IF cache_key \in DOMAIN _classification_cache
       THEN SetWorkflow(p, WorkflowClassified(
                               Trace(w, <<"classify_called">>),
                               ClassifyKeyed(_classification_cache, cache_key, w.ticket,
                                             NoBackend, NoClock).out))
       ELSE SetWorkflow(p, [Trace(w, <<"classify_called", "backend_called">>)
                               EXCEPT !.pc = "classifying"])
    /\ UNCHANGED <<_classification_cache, cls_event, inbox, team_mapping_rows, routerVars>>

WorkflowStart(p) ==
    /\ workflow[p].pc = "new"
    /\ LoopFree
    /\ WorkflowStartKeyed(p, workflow[p], _generate_cache_key(workflow[p].ticket))

\* classifier.py:341-392 and webhook.py:61-78: the backend call ends and the task
\* runs on to the awaited mapping lookup.
WorkflowBackendResult(p, w, r) ==
    /\ _classification_cache' = r.cache
    /\ SetWorkflow(p, WorkflowClassified(Trace(w, <<"backend_returned">>), r.out))
    /\ UNCHANGED <<cls_event, inbox, team_mapping_rows, routerVars>>

WorkflowBackend(p) ==
    \E backend \in WorkflowBackendOutcomes, ms \in ClockReadings :
        /\ workflow[p].pc = "classifying"
        /\ WorkflowBackendResult(p, workflow[p],
               FirstAttempt(ClassifyMiss(_classification_cache,
                                         _generate_cache_key(workflow[p].ticket),
                                         workflow[p].ticket, backend, ms),
                            workflow[p].ticket, backend, ms))

\* router.py:302-340: route_ticket is called with the mapping found and runs to
\* its awaited request, or to an early end.
WorkflowRouteEntry(p, w, endpoint, r) ==
    /\ SetBreaker(r.br)
    /\ IF r.next = "await"
       THEN SetWorkflow(p, [Trace(w, <<"lookup_returned", "route_called", "http_request">>)
                               EXCEPT !.pc = "awaiting_http", !.endpoint = endpoint,
                                      !.system = r.system, !.attempt = 1])
       ELSE SetWorkflow(p, WorkflowRouted(Trace(w, <<"lookup_returned", "route_called">>),
                                          r.out))

\* webhook.py:75-93: the mapping lookup ends
WorkflowLookup(p) ==
    /\ workflow[p].pc = "awaiting_lookup"
    /\ LoopFree
    /\ \E found \in LookupOutcomes(team_mapping_rows, workflow[p].department) :
           IF found = "error"
           THEN /\ SetWorkflow(p, WorkflowExcept(workflow[p],
                                      "Database error getting team mapping",
                                      "lookup_raised"))
                /\ UNCHANGED <<circuit_breaker_state, failure_counts, last_failure_time>>
           ELSE IF found = "None"
           THEN /\ SetWorkflow(p, WorkflowNoMapping(workflow[p]))
                /\ UNCHANGED <<circuit_breaker_state, failure_counts, last_failure_time>>
           ELSE WorkflowRouteEntry(p, workflow[p], found,
                                   RouteEntry(Breaker, found, WorkflowRouteTicket, now))
    /\ UNCHANGED <<now, pc, call, event, consec, mappings, classifierVars,
                   team_mapping_rows>>

\* router.py:335-414 and webhook.py:95-122: the request ends
WorkflowHttpResult(p, w, r) ==
    /\ SetBreaker(r.br)
    /\ IF retry_with_backoff(r.out, w.attempt, RouterRetryOn) = "retry"
       THEN SetWorkflow(p, [Trace(w, <<"http_request">>) EXCEPT !.attempt = @ + 1])
       ELSE SetWorkflow(p, WorkflowRouted(w, r.out))

WorkflowHttp(p) ==
    \E resp \in WorkflowHttpOutcomes :
        /\ workflow[p].pc = "awaiting_http"
        /\ LoopFree
        /\ WorkflowHttpResult(p, workflow[p],
               RouteResume(Breaker, workflow[p].endpoint, workflow[p].system, resp, now))
        /\ UNCHANGED <<now, pc, call, event, consec, mappings, classifierVars,
                       team_mapping_rows>>

\* webhook.py:85 and 125, db/lookup.py:242-281: the audit-log write of the try
\* block reaches its commit; the row is written, or a database error is raised,
\* which the except clause takes up.  The task is still inside log_ticket.
WorkflowLog(p) ==
    \E written \in BOOLEAN :
        /\ workflow[p].pc = "awaiting_log"
        /\ workflow[p].logged = "None"
        /\ LoopFree
        /\ SetWorkflow(p, IF written THEN WorkflowLogCommitted(workflow[p])
                          ELSE WorkflowExcept(workflow[p], "Database error logging ticket",
                                              "log_raised"))
        /\ UNCHANGED <<routerVars, classifierVars, team_mapping_rows>>

\* webhook.py:135-141, db/lookup.py:242-281: the audit-log write of the except
\* clause reaches its commit; its error is logged and dropped
WorkflowLogInExcept(p) ==
    \E written \in BOOLEAN :
        /\ workflow[p].pc = "awaiting_log_in_except"
        /\ workflow[p].logged = "None"
        /\ LoopFree
        /\ SetWorkflow(p, IF written THEN WorkflowLogCommitted(workflow[p])
                          ELSE [Trace(workflow[p], <<"log_raised">>) EXCEPT !.pc = "done"])
        /\ UNCHANGED <<routerVars, classifierVars, team_mapping_rows>>

\* db/lookup.py:242 and 275-281: after the commit log_ticket gives the loop up
\* once more, on closing the session, and then returns to the workflow
WorkflowLogReturn(p) ==
    /\ workflow[p].pc \in {"awaiting_log", "awaiting_log_in_except"}
    /\ workflow[p].logged # "None"
    /\ LoopFree
    /\ SetWorkflow(p, WorkflowLogged(workflow[p]))
    /\ UNCHANGED <<routerVars, classifierVars, team_mapping_rows>>

WorkflowStep(p) ==
    \/ WorkflowStart(p)
    \/ WorkflowBackend(p)
    \/ WorkflowLookup(p)
    \/ WorkflowHttp(p)
    \/ WorkflowLog(p)
    \/ WorkflowLogInExcept(p)
    \/ WorkflowLogReturn(p)

WorkflowNext == \E p \in Workflows : WorkflowStep(p)

WorkflowInit ==
    /\ team_mapping_rows \in MappingTables
    /\ \E tickets \in WorkflowTickets :
           /\ workflow = [p \in Workflows |-> NewWorkflow(tickets[p])]
           /\ inbox = {tickets[p] : p \in Workflows}

(***************************************************************************)
(* The system resolver on URL text (router.py:84-98).  The router machine   *)
(* above works with a few endpoints and a table of what urlparse makes of   *)
(* them; here a URL is the tuple of its characters, urlparse is computed    *)
(* and the patterns are tested as substrings.                               *)
(***************************************************************************)
\* with a scheme and authority marker, or a bare host as an operator may type it
UrlSchemes ==
    {<<"h", "t", "t", "p", "s", ":", "/", "/">>,
     <<>>}

\* the userinfo part of the authority
UrlUserinfos ==
    {<<>>,
     <<"j", "i", "r", "a", "@">>}

\* hosts: one pattern, several patterns, none, upper case, an unmatched bracket
UrlHosts ==
    {<<"h", "o", "o", "k", "s", ".", "s", "l", "a", "c", "k", ".", "c", "o", "m">>,
     <<"w", "e", "b", "h", "o", "o", "k", ".", "s", "i", "t", "e">>,
     <<"x", ".", "a", "t", "l", "a", "s", "s", "i", "a", "n", ".", "n", "e", "t">>,
     <<"j", "i", "r", "a", ".", "f", "r", "e", "s", "h", "s", "e", "r", "v", "i", "c", "e", ".", "c", "o", "m">>,
     <<"a", ".", "f", "r", "e", "s", "h", "s", "e", "r", "v", "i", "c", "e", ".", "c", "o", "m">>,
     <<"s", "l", "a", "c", "k", ".", "c", "o", "m", ".", "w", "e", "b", "h", "o", "o", "k", ".", "s", "i", "t", "e">>,
     <<"f", "r", "e", "s", "h", "s", "e", "r", "v", "i", "c", "e", ".", "s", "l", "a", "c", "k", ".", "c", "o", "m">>,
     <<"e", "x", "a", "m", "p", "l", "e", ".", "c", "o", "m">>,
     <<"H", "O", "O", "K", "S", ".", "S", "L", "A", "C", "K", ".", "C", "O", "M">>,
     <<"[", "h", "o", "o", "k", "s", ".", "s", "l", "a", "c", "k", ".", "c", "o", "m">>}

\* path and query
UrlTails ==
    {<<>>,
     <<"/", "s", "e", "r", "v", "i", "c", "e", "s", "/", "x">>,
     <<"/", "j", "i", "r", "a">>,
     <<"?", "u", "=", "s", "l", "a", "c", "k", ".", "c", "o", "m">>}

Pat_atlassian_net == <<"a", "t", "l", "a", "s", "s", "i", "a", "n", ".", "n", "e", "t">>
Pat_jira == <<"j", "i", "r", "a">>
Pat_freshservice == <<"f", "r", "e", "s", "h", "s", "e", "r", "v", "i", "c", "e">>
Pat_slack_com == <<"s", "l", "a", "c", "k", ".", "c", "o", "m">>
Pat_webhook_site == <<"w", "e", "b", "h", "o", "o", "k", ".", "s", "i", "t", "e">>
SlackUrlText ==
    <<"h", "t", "t", "p", "s", ":", "/", "/", "h", "o", "o", "k", "s", ".", "s", "l", "a", "c", "k", ".", "c", "o", "m", "/", "s", "e", "r", "v", "i", "c", "e", "s", "/", "Y", "O", "U", "R", "/", "S", "L", "A", "C", "K", "/", "W", "E", "B", "H", "O", "O", "K">>
WebhookTestUrlText ==
    <<"h", "t", "t", "p", "s", ":", "/", "/", "w", "e", "b", "h", "o", "o", "k", ".", "s", "i", "t", "e", "/", "f", "a", "c", "i", "l", "i", "t", "i", "e", "s", "-", "t", "e", "s", "t">>
WebhookSecurityUrlText ==
    <<"h", "t", "t", "p", "s", ":", "/", "/", "w", "e", "b", "h", "o", "o", "k", ".", "s", "i", "t", "e", "/", "s", "e", "c", "u", "r", "i", "t", "y", "-", "t", "e", "s", "t">>
BadUrlText ==
    <<"h", "t", "t", "p", ":", "/", "/", "[", "h", "o", "o", "k", "s", ".", "s", "l", "a", "c", "k", ".", "c", "o", "m", "/", "s", "e", "r", "v", "i", "c", "e", "s", "/", "Y", "O", "U", "R", "/", "S", "L", "A", "C", "K", "/", "W", "E", "B", "H", "O", "O", "K">>
SchemeChars ==
    {"a", "b", "c", "d", "e", "f", "g", "h", "i", "j", "k", "l", "m", "n", "o", "p", "q", "r", "s", "t", "u", "v", "w", "x", "y", "z", "0", "1", "2", "3", "4", "5", "6", "7", "8", "9", "+", "-", "."}

ResolverUrls ==
    {s \o u \o h \o t : s \in UrlSchemes, u \in UrlUserinfos,
                         h \in UrlHosts, t \in UrlTails}

\* The least index i >= from with text[i] in chars; Len(text) + 1 when there is none
FirstIndex(text, chars, from) ==
    LET hits == {i \in from..Len(text) : text[i] \in chars}
    IN  IF hits = {} THEN Len(text) + 1
        ELSE CHOOSE i \in hits : \A j \in hits : i <= j

\* urllib.parse.urlsplit: the scheme ends at the first ":" when what precedes it
\* starts with a letter and holds scheme characters only; 0 when there is no
\* scheme.
SchemeEnd(url) ==
    LET i == FirstIndex(url, {":"}, 1)
    IN  IF /\ i <= Len(url)
           /\ i > 1
           /\ LowerChar(url[1]) \in SchemeChars \ {"0", "1", "2", "3", "4", "5", "6",
                                                   "7", "8", "9", "+", "-", "."}
           /\ \A j \in 1..(i - 1) : LowerChar(url[j]) \in SchemeChars
        THEN i
        ELSE 0

\* urllib.parse.urlsplit: after the scheme, "//" starts the netloc, which runs to
\* the first of "/", "?", "#"; without "//" the netloc is empty.  A netloc with
\* "[" and no "]", or "]" and no "[", raises ValueError("Invalid IPv6 URL").
NetlocOf(rest) ==
    IF Len(rest) >= 2 /\ rest[1] = "/" /\ rest[2] = "/"
    THEN SubSeq(rest, 3, FirstIndex(rest, {"/", "?", "#"}, 3) - 1)
    ELSE <<>>

HasChar(text, c) == \E i \in 1..Len(text) : text[i] = c

urlparse_text(url) ==
    LET netloc == NetlocOf(SubSeq(url, SchemeEnd(url) + 1, Len(url)))
    IN  IF HasChar(netloc, "[") # HasChar(netloc, "]")
        THEN [ok |-> FALSE, netloc |-> <<>>]
        ELSE [ok |-> TRUE, netloc |-> netloc]

\* router.py:89-98: the chain of substring tests on the lowered netloc
SystemOfDomain(domain) ==
    IF Contains(domain, Pat_atlassian_net) \/ Contains(domain, Pat_jira) THEN "jira"
    ELSE IF Contains(domain, Pat_freshservice) THEN "freshservice"
    ELSE IF Contains(domain, Pat_slack_com) THEN "slack"
    ELSE IF Contains(domain, Pat_webhook_site) THEN "webhook_test"
    ELSE "unknown"

\* What a call of the resolver gives: a system name, or the ValueError of
\* urlparse (router.py:86), which the function does not catch.
Resolved(system) == [NoResult EXCEPT !.kind = "str", !.system_name = system]

ResolveSystem(url) ==
    LET parsed == urlparse_text(url)
    IN  IF ~parsed.ok THEN Raised("ValueError")
        ELSE Resolved(SystemOfDomain(lower(parsed.netloc)))

\* The text of the three endpoints of the router machine
EndpointText(endpoint) ==
    CASE endpoint = SlackUrl       -> SlackUrlText
      [] endpoint = WebhookTestUrl -> WebhookTestUrlText
      [] endpoint = WebhookSecurityUrl -> WebhookSecurityUrlText
      [] endpoint = BadUrl         -> BadUrlText

\* The table the router machine uses says what the computation on the text says.
EndpointTableAgreesWithText ==
    \A e \in Endpoints :
        /\ urlparse(e).ok = urlparse_text(EndpointText(e)).ok
        /\ urlparse(e).ok =>
              ResolveSystem(EndpointText(e)) = Resolved(_get_system_from_endpoint(e))

\* A call of the resolver on one URL; event keeps the URL and the outcome.
ResolveCall ==
    \E url \in ResolverUrls :
        /\ event' = [NoEvent EXCEPT !.phase = "resolve", !.op = "return",
                                    !.endpoint = url, !.out = ResolveSystem(url)]
        /\ UNCHANGED <<circuit_breaker_state, failure_counts, last_failure_time,
                       now, pc, call, consec, mappings, classifierVars,
                       workflowVars>>

ResolverNext == ResolveCall

(***************************************************************************)
(* The team-mapping lookup (db/lookup.py:153-209, get_team_mapping).  The   *)
(* ticket workflow above takes the lookup by its outcome; here the table is *)
(* a sequence of rows (the index is the row's id) and the query, its ORDER  *)
(* BY on the text column and the loop over the rows are computed.           *)
(***************************************************************************)
Str_low == <<"l", "o", "w">>
Str_medium == <<"m", "e", "d", "i", "u", "m">>
Str_high == <<"h", "i", "g", "h">>
Str_critical == <<"c", "r", "i", "t", "i", "c", "a", "l">>

\* models/ticket.py, TicketPriority
TicketPriority == {Str_low, Str_medium, Str_high, Str_critical}

\* db/lookup.py:174-175, 178: priority_values.get(value, 1)
priority_values(value) ==
    CASE value = Str_low      -> 1
      [] value = Str_medium   -> 2
      [] value = Str_high     -> 3
      [] value = Str_critical -> 4
      [] OTHER                -> 1

\* The place of a lower-case letter in the alphabet, which is the order of the
\* code points the database compares.
CharRank(c) ==
    CASE c = "a" -> 1 [] c = "b" -> 2 [] c = "c" -> 3 [] c = "d" -> 4
      [] c = "e" -> 5 [] c = "f" -> 6 [] c = "g" -> 7 [] c = "h" -> 8
      [] c = "i" -> 9 [] c = "j" -> 10 [] c = "k" -> 11 [] c = "l" -> 12
      [] c = "m" -> 13 [] c = "n" -> 14 [] c = "o" -> 15 [] c = "p" -> 16
      [] c = "q" -> 17 [] c = "r" -> 18 [] c = "s" -> 19 [] c = "t" -> 20
      [] c = "u" -> 21 [] c = "v" -> 22 [] c = "w" -> 23 [] c = "x" -> 24
      [] c = "y" -> 25 [] c = "z" -> 26

\* a < b as the database compares two texts: at the first place where they
\* differ a has the lesser character, or a is a proper prefix of b.
TextLess(a, b) ==
    \E i \in 1..(Min(Len(a), Len(b)) + 1) :
        /\ \A j \in 1..(i - 1) : a[j] = b[j]
        /\ \/ i > Len(a) /\ i <= Len(b)
           \/ i <= Len(a) /\ i <= Len(b) /\ CharRank(a[i]) < CharRank(b[i])

\* The rows of team_mappings (db/lookup.py:25-38), as far as the lookup reads
\* them; two departments are enough for the WHERE clause to select.
LookupDepartments == {"IT", "HR"}

MappingRow ==
    [department : LookupDepartments, priority_threshold : TicketPriority,
     is_active : BOOLEAN]

MaxRows == 2

MappingRowTables ==
    UNION {[1..n -> MappingRow] : n \in 1..MaxRows}

\* db/lookup.py:162-165, the WHERE clause: the ids of the department's active rows
SelectedRows(rows, department) ==
    {i \in 1..Len(rows) : rows[i].department = department /\ rows[i].is_active}

\* db/lookup.py:165-168, ORDER BY priority_threshold DESC on the String column:
\* every order of the selected rows in which no row comes before a row with a
\* greater text; rows with the same text come in an order the database chooses.
QueryResults(rows, department) ==
    LET ids == SelectedRows(rows, department)
    IN  {o \in [1..Cardinality(ids) -> ids] :
            /\ \A j, k \in DOMAIN o : j # k => o[j] # o[k]
            /\ \A j, k \in DOMAIN o :
                   j < k => ~TextLess(rows[o[j]].priority_threshold,
                                      rows[o[k]].priority_threshold)}

\* db/lookup.py:170-206: None (0) without rows; else the first row, in the order
\* of the query, whose threshold the ticket's priority reaches; else the first
\* row.  The result is the id of the row the TeamMapping is built from.
PickMapping(rows, mappings_found, priority) ==
    LET fits == {j \in DOMAIN mappings_found :
                    priority_values(priority)
                        >= priority_values(rows[mappings_found[j]].priority_threshold)}
    IN  IF Len(mappings_found) = 0 THEN 0
        ELSE IF fits = {} THEN mappings_found[1]
        ELSE mappings_found[CHOOSE j \in fits : \A k \in fits : j <= k]

\* A call get_team_mapping(department, priority); event keeps the query and the
\* id of the row returned.
LookupCall ==
    \E department \in LookupDepartments, priority \in TicketPriority :
        \E mappings_found \in QueryResults(team_mapping_rows, department) :
            /\ event' = [NoEvent EXCEPT
                             !.phase = "lookup", !.op = "return",
                             !.endpoint = [department |-> department,
                                           priority |-> priority],
                             !.out = PickMapping(team_mapping_rows, mappings_found,
                                                 priority)]
            /\ UNCHANGED <<circuit_breaker_state, failure_counts, last_failure_time,
                           now, pc, call, consec, mappings, classifierVars,
                           workflowVars>>

LookupNext == LookupCall

(***************************************************************************)
(* Specifications                                                          *)
(***************************************************************************)
\* No ticket workflow runs.
WorkflowOff ==
    /\ workflow = [p \in Workflows |-> NoWorkflow]
    /\ team_mapping_rows = [d \in DepartmentType |-> "None"]

\* The router on its own: no ticket is classified.
SpecRouterInit ==
    /\ RouterInit
    /\ _classification_cache = <<>>
    /\ cls_event = NoClsEvent
    /\ inbox = {}
    /\ WorkflowOff

SpecRouter == SpecRouterInit /\ [][RouterNext]_vars

\* The classifier on its own: no ticket is routed.
SpecClassifyInit ==
    /\ ClassifierInit
    /\ RouterInit
    /\ mappings = {SlackUrl}
    /\ WorkflowOff

SpecClassify == SpecClassifyInit /\ [][ClassifierNext]_vars

\* The keyword fallback on its own
SpecFallbackInit ==
    /\ _classification_cache = <<>>
    /\ cls_event = NoClsEvent
    /\ inbox = {}
    /\ RouterInit
    /\ mappings = {SlackUrl}
    /\ WorkflowOff

SpecFallback == SpecFallbackInit /\ [][FallbackNext]_vars

\* The router with two endpoints of one host, which differ in the path, and one
\* caller.
SpecSameHostInit ==
    /\ circuit_breaker_state = [e \in Endpoints |-> "absent"]
    /\ failure_counts = [e \in Endpoints |-> 0]
    /\ last_failure_time = [e \in Endpoints |-> 0]
    /\ now = 0
    /\ pc = [t \in Tasks |-> "idle"]
    /\ call = [t \in Tasks |-> NoCall]
    /\ event = NoEvent
    /\ consec = [e \in Endpoints |-> 0]
    /\ mappings = {WebhookTestUrl, WebhookSecurityUrl}
    /\ _classification_cache = <<>>
    /\ cls_event = NoClsEvent
    /\ inbox = {}
    /\ WorkflowOff

SameHostNext == RouteStart("t1") \/ RouteFinish("t1") \/ Tick

SpecSameHost == SpecSameHostInit /\ [][SameHostNext]_vars

\* The team-mapping lookup on its own, over every table of up to MaxRows rows
SpecLookupInit ==
    /\ RouterInit
    /\ mappings = {SlackUrl}
    /\ _classification_cache = <<>>
    /\ cls_event = NoClsEvent
    /\ inbox = {}
    /\ workflow = [p \in Workflows |-> NoWorkflow]
    /\ team_mapping_rows \in MappingRowTables

SpecLookup == SpecLookupInit /\ [][LookupNext]_vars

\* The system resolver on its own
SpecResolverInit ==
    /\ RouterInit
    /\ mappings = {SlackUrl}
    /\ _classification_cache = <<>>
    /\ cls_event = NoClsEvent
    /\ inbox = {}
    /\ WorkflowOff

SpecResolver == SpecResolverInit /\ [][ResolverNext]_vars

\* The ticket workflows: two tickets in flight, calling the classifier and the
\* router.
SpecWorkflowInit ==
    /\ WorkflowInit
    /\ RouterInit
    /\ mappings = {team_mapping_rows[d] : d \in DepartmentType} \ {"None"}
    /\ _classification_cache = <<>>
    /\ cls_event = NoClsEvent

SpecWorkflow == SpecWorkflowInit /\ [][WorkflowNext]_vars

(***************************************************************************)
(* Claims about the router and its circuit breaker (under SpecRouter)      *)
(***************************************************************************)
IsOpen(e) == circuit_breaker_state[e] = "True"

Returned == event.op = "return"

\* C1: after 5 consecutive failed delivery attempts to E (no 2xx response and no
\* cool-down reset in between) the breaker of E is open; after fewer than 5 it is
\* closed and the breaker check lets the next call to E through.
C1_OpensAtFiveConsecutiveFailures ==
    \A e \in Endpoints :
        /\ consec[e] >= FailureThreshold => IsOpen(e)
        /\ consec[e] < FailureThreshold =>
              /\ ~IsOpen(e)
              /\ ~_is_circuit_breaker_open(Breaker, e, now).open

\* C2: a route call made while the breaker of E is open and at most 300 seconds
\* have passed since E's last recorded failure returns at once with
\* success=false and system "circuit_breaker", issues no HTTP request and is
\* attempted once.
C2_OpenBreakerShortCircuits ==
    event.gate = "open" =>
        /\ event.phase = "entry"
        /\ Returned
        /\ event.out = RoutingResult(FALSE, "circuit_breaker", <<>>,
                                     "Circuit breaker open", 0)
        /\ event.requests = 0
        /\ event.attempts = 1
        /\ failure_counts[event.endpoint] = event.count_before

\* C2 witness: a call short-circuited exactly 300 seconds after the last failure.
C2_Witness ==
    /\ event.gate = "open"
    /\ Returned
    /\ now - last_failure_time[event.endpoint] = CooldownSeconds

\* C3: a route call made while the breaker of E is open and more than 300 seconds
\* have passed since E's last failure zeroes E's failure count, closes the breaker
\* and proceeds to the HTTP call.  Stated of the tickets the webhook hands to the
\* router, whose payload serialises.
C3_CooledCallReachesHttp ==
    (event.phase = "entry" /\ event.gate = "cooled" /\ event.serialisable) =>
        /\ event.op = "request"
        /\ failure_counts[event.endpoint] = 0
        /\ circuit_breaker_state[event.endpoint] = "False"

\* What holds of such a call: it closes the breaker and is never
\* short-circuited; on an endpoint urlparse accepts it issues the HTTP request
\* with E's failure count at 0.
CooledCallReachesHttpOnParsedEndpoint ==
    (event.phase = "entry" /\ event.gate = "cooled" /\ event.serialisable) =>
        /\ event.out.system_name # "circuit_breaker"
        /\ circuit_breaker_state[event.endpoint] = "False"
        /\ event.count_before >= FailureThreshold
        /\ urlparse(event.endpoint).ok =>
               /\ event.op = "request"
               /\ event.requests = 1
               /\ failure_counts[event.endpoint] = 0

\* C4: a route call that ends in a failure from a transport error or a non-2xx
\* status has made 3 HTTP attempts.
C4_FailureOnlyAfterThreeAttempts ==
    (Returned /\ event.out.error_message \in {"HTTP error", "Request error"}) =>
        event.requests = max_attempts

\* C5: a route call whose HTTP response has a 2xx status returns success=true with
\* the resolved system and that status, and leaves the endpoint's failure count
\* at 0, whatever the body.
C5_Every2xxReturnsSuccess ==
    (Returned /\ event.phase = "resume" /\ is_success(event.status)) =>
        /\ event.out = RoutingResult(TRUE, _get_system_from_endpoint(event.endpoint),
                                     event.out.external_ticket_id, "None",
                                     event.status)
        /\ failure_counts[event.endpoint] = 0

\* C6: a route call that returns success=true leaves the endpoint's failure count
\* at 0 and its breaker closed.
C6_SuccessResetsBreaker ==
    (Returned /\ event.out.success) =>
        /\ failure_counts[event.endpoint] = 0
        /\ circuit_breaker_state[event.endpoint] = "False"

\* C6 witness: a success that arrived with 4 failures on record.
C6_Witness ==
    /\ Returned
    /\ event.out.success
    /\ event.count_before = FailureThreshold - 1
    /\ failure_counts[event.endpoint] = 0

\* C7: a route call always ends by returning a RoutingResult, never by raising.
C7_RouteNeverRaises ==
    Returned => event.out.kind = "RoutingResult"

\* C11: whatever the interleaving of the route calls in flight, after n delivery
\* attempts to E that got no 2xx response, with no 2xx response and no cool-down
\* reset in between, the failure count of E is exactly n.
C11_NoLostFailureIncrement ==
    \A e \in Endpoints : failure_counts[e] = consec[e]

\* C19: every route call to a Slack webhook endpoint that gets HTTP 200 returns
\* success=true with an external ticket identifier of the form slack_<digits>,
\* whatever the response body is, an empty body and the plain text "ok" included.
C19_Slack200AlwaysSynthesisesId ==
    (/\ Returned
     /\ event.phase = "resume"
     /\ event.endpoint = SlackUrl
     /\ event.status = 200) =>
        /\ event.out.kind = "RoutingResult"
        /\ event.out.success
        /\ event.out.external_ticket_id = SlackId(now)

\* The system names a delivered ticket can carry (router.py:84-98).
ResolvedSystems == {"jira", "freshservice", "slack", "webhook_test", "unknown"}

\* C20: every RoutingResult with success=true carries a system name from jira,
\* freshservice, slack, webhook_test, unknown: the one resolved from the endpoint,
\* never "circuit_breaker".
C20_SuccessCarriesResolvedSystem ==
    (Returned /\ event.out.kind = "RoutingResult" /\ event.out.success) =>
        /\ event.out.system_name \in ResolvedSystems
        /\ event.out.system_name = _get_system_from_endpoint(event.endpoint)
        /\ event.out.system_name # "circuit_breaker"

\* C20 witness: a call made to an endpoint whose breaker was open and had cooled
\* down was delivered, while the breaker of another endpoint is open.
C20_Witness ==
    /\ Returned
    /\ event.out.success
    /\ event.gate = "cooled"
    /\ event.out.system_name \in ResolvedSystems
    /\ \E e \in Endpoints : e # event.endpoint /\ IsOpen(e)

\* C22: every HTTP attempt that was started and did not end in a 2xx response (a
\* non-2xx status, a transport error such as a timeout, or another exception
\* raised by the request) adds exactly 1 to the endpoint's failure count and
\* sets its last-failure time to the time of the failure.
C22_FailedAttemptRecordsOneFailure ==
    (event.phase = "resume" /\ ~is_success(event.status)) =>
        /\ failure_counts[event.endpoint] = event.count_before + 1
        /\ last_failure_time[event.endpoint] = now

\* C22 witness: a request that raised (a timeout, or an exception that is not an
\* httpx one) 300 seconds after two failures made the count 3 and moved the
\* last-failure time to 300.
C22_Witness ==
    /\ event.phase = "resume"
    /\ event.out.error_message \in {"Request error", "Unexpected error"}
    /\ event.status = 0
    /\ event.count_before = 2
    /\ now = CooldownSeconds
    /\ failure_counts[event.endpoint] = 3
    /\ last_failure_time[event.endpoint] = CooldownSeconds

\* C23: a step that records a failure, a success or a cool-down reset for
\* endpoint E changes the failure count, the open flag and the last-failure time
\* of E only; every other endpoint URL, one that differs from E in its path only
\* included, keeps its three values.
C23_BookkeepingTouchesOneEndpoint ==
    [][\A e \in Endpoints :
          e # event'.endpoint =>
              /\ failure_counts'[e] = failure_counts[e]
              /\ circuit_breaker_state'[e] = circuit_breaker_state[e]
              /\ last_failure_time'[e] = last_failure_time[e]]_vars

\* C23 witness: a ticket was delivered to one endpoint of webhook.site while the
\* breaker of the other endpoint of that host stays open with 5 failures counted.
C23_Witness ==
    /\ Returned
    /\ event.out.success
    /\ event.endpoint = WebhookSecurityUrl
    /\ urlparse(WebhookTestUrl).netloc = urlparse(WebhookSecurityUrl).netloc
    /\ failure_counts[WebhookSecurityUrl] = 0
    /\ failure_counts[WebhookTestUrl] = FailureThreshold
    /\ IsOpen(WebhookTestUrl)

\* C26: in every state and for every endpoint, the breaker's open flag is true
\* exactly when the endpoint's failure count is at least 5.
C26_OpenIffCountAtThreshold ==
    \A e \in Endpoints :
        IsOpen(e) <=> failure_counts[e] >= FailureThreshold

\* C26 witness: two calls were in flight when the breaker opened, the count of
\* the open breaker has passed 5, and another endpoint is closed with failures
\* on record.
C26_Witness ==
    \E e, f \in Endpoints :
        /\ IsOpen(e)
        /\ failure_counts[e] = FailureThreshold + 1
        /\ ~IsOpen(f)
        /\ circuit_breaker_state[f] = "False"
        /\ failure_counts[f] \in 1..(FailureThreshold - 1)

\* C27: a route call that the open breaker short-circuits leaves the endpoint's
\* failure count, open flag and last-failure time as they were, so the cool-down
\* runs from the last failed attempt and rejected calls do not extend it.
C27_ShortCircuitLeavesBreakerAlone ==
    [][(event'.phase = "entry" /\ event'.out.system_name = "circuit_breaker") =>
          /\ failure_counts' = failure_counts
          /\ circuit_breaker_state' = circuit_breaker_state
          /\ last_failure_time' = last_failure_time]_vars

\* C27 witness: a call was rejected 300 seconds after the endpoint's last failure,
\* and the breaker still has the count and the time of that failure.
C27_Witness ==
    /\ Returned
    /\ event.phase = "entry"
    /\ event.out.system_name = "circuit_breaker"
    /\ IsOpen(event.endpoint)
    /\ failure_counts[event.endpoint] = event.count_before
    /\ last_failure_time[event.endpoint] = 0
    /\ now = CooldownSeconds

(***************************************************************************)
(* Claims about the system resolver (under SpecResolver)                   *)
(***************************************************************************)
ResolveCalled == event.phase = "resolve"

\* The host of a netloc: what follows the userinfo
HostOf(netloc) ==
    LET ats == {i \in 1..Len(netloc) : netloc[i] = "@"}
    IN  IF ats = {} THEN netloc
        ELSE SubSeq(netloc, (CHOOSE i \in ats : \A j \in ats : j <= i) + 1, Len(netloc))

\* The precedence the claim states, on a host
PrecedenceOn(host) ==
    CASE Contains(host, Pat_atlassian_net) \/ Contains(host, Pat_jira) -> "jira"
      [] OTHER ->
         CASE Contains(host, Pat_freshservice) -> "freshservice"
           [] OTHER ->
              CASE Contains(host, Pat_slack_com) -> "slack"
                [] OTHER ->
                   CASE Contains(host, Pat_webhook_site) -> "webhook_test"
                     [] OTHER -> "unknown"

\* C21: the resolver is total, it gives a system name for every URL, and the name
\* is decided by substring tests on the URL's host in the order atlassian.net or
\* jira, freshservice, slack.com, webhook.site, else unknown; a host that matches
\* several patterns gets the earliest.
C21_ResolverTotalWithPrecedence ==
    ResolveCalled =>
        /\ event.out.kind = "str"
        /\ event.out.system_name =
              PrecedenceOn(lower(HostOf(NetlocOf(
                  SubSeq(event.endpoint, SchemeEnd(event.endpoint) + 1,
                         Len(event.endpoint))))))

\* What holds of the resolver: on a URL that urlparse accepts, the name is decided
\* by the precedence on the whole netloc, userinfo included.
ResolverPrecedenceOnNetloc ==
    (ResolveCalled /\ event.out.kind = "str") =>
        event.out.system_name =
            PrecedenceOn(lower(urlparse_text(event.endpoint).netloc))

(***************************************************************************)
(* Claims about the classifier                                             *)
(***************************************************************************)
ClsCalled == cls_event.op = "classify"

\* The call reached the backend, which raised or gave an empty text.
BackendFailed ==
    /\ ClsCalled
    /\ cls_event.calls > 0
    /\ \/ cls_event.backend.kind = "error"
       \/ cls_event.backend.kind = "text" /\ cls_event.backend.text = <<>>

\* The call reached the backend, whose text the parser turns down.
BackendUnusable ==
    /\ ClsCalled
    /\ cls_event.calls > 0
    /\ cls_event.backend.kind = "text"
    /\ ~_parse_classification_response(cls_event.backend.text).ok

\* The keyword result for the ticket, whatever processing time it carries.
IsKeywordFallback(out, ticket) ==
    /\ out.kind = "ClassificationResult"
    /\ out.model_version = fallback_model
    /\ [out EXCEPT !.processing_time_ms = 0] = _create_fallback_classification(ticket)

\* C8: classify_ticket never raises and always returns a ClassificationResult
\* whose department is one of the departments; when the backend raises, gives an
\* empty text, or gives a text the parser turns down, the result is the keyword
\* fallback for the ticket.
C8_ClassifyAlwaysReturns ==
    ClsCalled =>
        /\ cls_event.out.kind = "ClassificationResult"
        /\ cls_event.out.department \in DepartmentType
        /\ (BackendFailed \/ BackendUnusable) =>
               IsKeywordFallback(cls_event.out, cls_event.ticket)

\* C8 witness: the backend raised and the caller got the keyword fallback, with
\* the time the call measured.
C8_Witness ==
    /\ ClsCalled
    /\ cls_event.backend.kind = "error"
    /\ IsKeywordFallback(cls_event.out, cls_event.ticket)
    /\ cls_event.out.processing_time_ms = 12

\* C9 as stated: whatever the call before returned, a call with the same title
\* and description returns the identical result and does not invoke the backend.
C9_RepeatIsIdenticalAfterAnyOutcome ==
    (ClsCalled /\ cls_event.repeat) =>
        /\ cls_event.out = cls_event.prev_out
        /\ cls_event.calls = 0

\* C9 amended: when the call before returned a result that came from the backend
\* and the cache was not cleared in between, a call with the same title and
\* description returns the identical result, processing time included, and does
\* not invoke the backend.
C9_RepeatIsIdenticalAfterBackendResult ==
    (ClsCalled /\ cls_event.repeat /\ cls_event.prev_out.model_version = model_name) =>
        /\ cls_event.out = cls_event.prev_out
        /\ cls_event.calls = 0

\* C9 witness: a second call with the same title and description was answered
\* from the cache, with the 12 ms the first call measured.
C9_Witness ==
    /\ ClsCalled
    /\ cls_event.repeat
    /\ cls_event.prev_out.model_version = model_name
    /\ cls_event.out = cls_event.prev_out
    /\ cls_event.out.processing_time_ms = 12
    /\ cls_event.calls = 0

\* C10: when the backend raises or gives an empty text, the call has invoked the
\* backend max_attempts times by the time it returns the keyword fallback.
C10_FallbackOnlyAfterThreeAttempts ==
    BackendFailed => cls_event.calls = max_attempts

\* The teams of a department's candidate list
CandidateTeams(department) ==
    {team_mappings(department)[i] : i \in 1..Len(team_mappings(department))}

\* What the backend's JSON object said, when the call just made reached the
\* backend and its answer passed the parser
BackendAnswered ==
    /\ ClsCalled
    /\ cls_event.calls > 0
    /\ cls_event.backend.kind = "text"
    /\ _parse_classification_response(cls_event.backend.text).ok

Answer == json_loads(SubSeq(strip(cls_event.backend.text),
                            find(strip(cls_event.backend.text), "{"),
                            rfind(strip(cls_event.backend.text), "}"))).m

\* C15: the team of every result classify returns, and of every cached result,
\* is on the candidate list of the result's department; a backend answer whose
\* team is not on the list of the resolved department gets that list's first.
C15_TeamFromCandidateList ==
    /\ ClsCalled => cls_event.out.assigned_to \in CandidateTeams(cls_event.out.department)
    /\ \A k \in DOMAIN _classification_cache :
           _classification_cache[k].assigned_to
               \in CandidateTeams(_classification_cache[k].department)
    /\ (BackendAnswered /\ cls_event.out.model_version = model_name) =>
           cls_event.out.assigned_to =
               IF Answer.team \in CandidateTeams(cls_event.out.department)
               THEN Answer.team
               ELSE team_mappings(cls_event.out.department)[1]

\* C15 witness: the backend named a team of another department's list and the
\* caller got the first team of the answer's department.
C15_Witness ==
    /\ BackendAnswered
    /\ Answer.department = "IT"
    /\ Answer.team = "hr_operations"
    /\ cls_event.out.model_version = model_name
    /\ cls_event.out.assigned_to = "it_support_team"

\* C16: the confidence of every result classify returns, and of every cached
\* result, lies in [0, 1] (0..100 hundredths); a backend confidence below 0 is
\* returned as 0 and one above 1 as 1.
C16_ConfidenceInUnitInterval ==
    /\ ClsCalled =>
           cls_event.out.confidence_score >= 0 /\ cls_event.out.confidence_score <= 100
    /\ \A k \in DOMAIN _classification_cache :
           /\ _classification_cache[k].confidence_score >= 0
           /\ _classification_cache[k].confidence_score <= 100
    /\ (BackendAnswered /\ cls_event.out.model_version = model_name) =>
           /\ Answer.confidence < 0 => cls_event.out.confidence_score = 0
           /\ Answer.confidence > 100 => cls_event.out.confidence_score = 100
           /\ (Answer.confidence >= 0 /\ Answer.confidence <= 100) =>
                  cls_event.out.confidence_score = Answer.confidence

\* C16 witness: the backend gave a confidence of 1.5 and the caller got 1.
C16_Witness ==
    /\ BackendAnswered
    /\ Answer.confidence = 150
    /\ cls_event.out.model_version = model_name
    /\ cls_event.out.confidence_score = 100

\* The keyword fallback was returned by the call just made.
FellBack ==
    /\ cls_event.op \in {"classify", "fallback"}
    /\ cls_event.out.model_version = fallback_model

\* The number of keywords of each department that occur in the lowercased title
\* and description of the ticket just classified
Matches ==
    [d \in DepartmentType \ {"GENERAL"} |->
        Cardinality({kw \in (CASE d = "IT" -> it_keywords
                               [] d = "HR" -> hr_keywords
                               [] d = "FACILITIES" -> facilities_keywords
                               [] d = "SECURITY" -> security_keywords
                               [] d = "FINANCE" -> finance_keywords
                               [] d = "LEGAL" -> legal_keywords) :
                        Contains(lower(cls_event.ticket.title) \o <<" ">>
                                     \o lower(cls_event.ticket.description), kw)})]

BestScore ==
    CHOOSE n \in {Matches[d] : d \in DOMAIN Matches} : \A d \in DOMAIN Matches : Matches[d] <= n

\* C17: the keyword fallback has department GENERAL and confidence 0.3 when no
\* keyword matches, and confidence min(0.7, 0.4 + 0.1 * best score) otherwise; it
\* always lies in [0.3, 0.7].
C17_FallbackConfidence ==
    FellBack =>
        /\ BestScore = 0 =>
               /\ cls_event.out.department = "GENERAL"
               /\ cls_event.out.confidence_score = 30
        /\ BestScore > 0 =>
               cls_event.out.confidence_score =
                   IF 40 + 10 * BestScore < 70 THEN 40 + 10 * BestScore ELSE 70
        /\ cls_event.out.confidence_score >= 30
        /\ cls_event.out.confidence_score <= 70

\* C17 witness: five IT keywords match and the fallback's confidence is 0.7, not
\* 0.9.
C17_Witness ==
    /\ FellBack
    /\ cls_event.ticket.title = Str_wifi_login
    /\ cls_event.ticket.description = Str_password_email_vpn
    /\ BestScore = 5
    /\ cls_event.out.confidence_score = 70

\* C18: when a keyword matches, the keyword fallback gives the department with
\* the most matches, among equals the first in the order IT, HR, FACILITIES,
\* SECURITY, FINANCE, LEGAL, and the first team of that department's list; a
\* ticket that matches "vpn" alone gets IT, it_support_team and 0.5.
C18_FallbackDepartment ==
    (FellBack /\ BestScore > 0) =>
        /\ \E i \in 1..Len(ScoreOrder) :
               /\ cls_event.out.department = ScoreOrder[i]
               /\ Matches[ScoreOrder[i]] = BestScore
               /\ \A j \in 1..(i - 1) : Matches[ScoreOrder[j]] < BestScore
        /\ cls_event.out.assigned_to = team_mappings(cls_event.out.department)[1]
        /\ (cls_event.ticket.title = Str_VPN /\ cls_event.ticket.description = Str_down) =>
               /\ cls_event.out.department = "IT"
               /\ cls_event.out.assigned_to = "it_support_team"
               /\ cls_event.out.confidence_score = 50

\* C18 witness: "office" and "contract" match one keyword of FACILITIES and one
\* of LEGAL, and the fallback gave FACILITIES and its first team.
C18_Witness ==
    /\ FellBack
    /\ cls_event.ticket.title = Str_office
    /\ cls_event.ticket.description = Str_contract
    /\ Matches["FACILITIES"] = 1
    /\ Matches["LEGAL"] = 1
    /\ BestScore = 1
    /\ cls_event.out.department = "FACILITIES"
    /\ cls_event.out.assigned_to = "facilities_management"

\* The first balanced {...} of a text: from its first "{" to the first "}" after
\* it (the texts considered have no nested braces); <<>> when there is none.
FirstBalancedObject(text) ==
    LET start == find(text, "{")
        closes == {i \in (start + 1)..Len(text) : text[i].tok = "}"}
    IN  IF start = 0 \/ closes = {} THEN <<>>
        ELSE SubSeq(text, start, CHOOSE i \in closes : \A j \in closes : i <= j)

\* The first balanced object of the backend's text parses and has the four
\* required fields.
FirstObjectComplete ==
    LET first == json_loads(FirstBalancedObject(strip(cls_event.backend.text)))
    IN  first.ok /\ RequiredFields \subseteq first.m.has

\* C24: the parser takes the first balanced {...} object of the backend's text;
\* when that object has the four required fields the call returns an AI-sourced
\* classification, whatever follows the object (more braces, a second object),
\* and the parser fails only when there is no balanced object or a required
\* field is missing.
C24_FirstBalancedObjectIsParsed ==
    (ClsCalled /\ cls_event.calls > 0 /\ cls_event.backend.kind = "text") =>
        /\ _parse_classification_response(cls_event.backend.text).ok
               <=> FirstObjectComplete
        /\ FirstObjectComplete => cls_event.out.model_version = model_name

\* C25: only validated AI-sourced results are in the cache: every entry carries
\* the AI model identifier and is no keyword fallback, and no step of classify
\* overwrites or removes an entry.
C25_CacheHoldsOnlyAIResults ==
    /\ [](\A k \in DOMAIN _classification_cache :
             /\ _classification_cache[k].kind = "ClassificationResult"
             /\ _classification_cache[k].model_version = model_name
             /\ _classification_cache[k].model_version # fallback_model
             /\ _classification_cache[k].department \in DepartmentType
             /\ _classification_cache[k].assigned_to
                    \in CandidateTeams(_classification_cache[k].department)
             /\ _classification_cache[k].confidence_score \in 0..100)
    /\ [][cls_event'.op = "classify" =>
             \A k \in DOMAIN _classification_cache :
                 /\ k \in DOMAIN _classification_cache'
                 /\ _classification_cache'[k] = _classification_cache[k]]_vars

\* C25 witness: with one ticket's AI result in the cache, a call for another
\* ticket returned the keyword fallback and the cache has no entry for it.
C25_Witness ==
    /\ ClsCalled
    /\ cls_event.calls > 0
    /\ IsKeywordFallback(cls_event.out, cls_event.ticket)
    /\ DOMAIN _classification_cache # {}
    /\ _generate_cache_key(cls_event.ticket) \notin DOMAIN _classification_cache
    /\ \A k \in DOMAIN _classification_cache :
           _classification_cache[k].model_version = model_name

(***************************************************************************)
(* Claims about the ticket workflow (under SpecWorkflow)                    *)
(***************************************************************************)
InTrace(w, step) == \E i \in 1..Len(w.trace) : w.trace[i] = step

Before(w, i, steps) == \E j \in 1..(i - 1) : w.trace[j] \in steps

Times(w, step) == Cardinality({i \in 1..Len(w.trace) : w.trace[i] = step})

\* C12: while a workflow is inside the external classification call, every
\* other workflow that has not finished can take its next step.
C12_ClassificationCallDoesNotBlockOthers ==
    \A p \in Workflows, q \in Workflows :
        (p # q /\ workflow[p].pc = "classifying" /\ workflow[q].pc # "done")
            => ENABLED WorkflowStep(q)

NoMappingError(w) == <<"No team mapping found for department", w.department>>

\* C13: when the lookup found no mapping, the router is not called and no HTTP
\* request is made for the ticket, and the finished ticket is FAILED with the
\* "no mapping" error and has its audit-log row.
C13_NoMappingEndsFailedAndLogged ==
    \A p \in Workflows :
        InTrace(workflow[p], "lookup_absent") =>
            /\ ~InTrace(workflow[p], "route_called")
            /\ ~InTrace(workflow[p], "http_request")
            /\ workflow[p].status = "failed"
            /\ workflow[p].pc = "done" =>
                   /\ workflow[p].routing_error = NoMappingError(workflow[p])
                   /\ workflow[p].logged = "failed"

\* What holds when the lookup found no mapping: the router is not called, no
\* HTTP request is made and the ticket is FAILED from then on; the finished
\* ticket carries the "no mapping" error and has its row unless the audit-log
\* write of the try block raised.
NoMappingNeverRoutes ==
    \A p \in Workflows :
        InTrace(workflow[p], "lookup_absent") =>
            /\ ~InTrace(workflow[p], "route_called")
            /\ ~InTrace(workflow[p], "http_request")
            /\ workflow[p].routed = NoResult
            /\ workflow[p].status = "failed"
            /\ (workflow[p].pc = "done" /\ ~InTrace(workflow[p], "log_raised")) =>
                   /\ workflow[p].routing_error = NoMappingError(workflow[p])
                   /\ workflow[p].logged = "failed"

\* C14: in each workflow the steps run in the order classify, look up, route,
\* log: each is called at most once (the log write a second time only after the
\* first raised), the lookup only after classification returned, the router only
\* after the lookup returned a mapping, the log write only after the router
\* returned or raised or the lookup ended without a mapping, and nothing but
\* log steps follows a log write.
C14_StepsInOrder ==
    \A p \in Workflows :
        LET w == workflow[p]
        IN  /\ Times(w, "classify_called") <= 1
            /\ Times(w, "lookup_called") <= 1
            /\ Times(w, "route_called") <= 1
            /\ Times(w, "log_called") <= 1 + Times(w, "log_raised")
            /\ \A i \in 1..Len(w.trace) :
                   /\ i = 1 => w.trace[i] = "classify_called"
                   /\ w.trace[i] = "lookup_called" =>
                          w.trace[i - 1] = "classify_returned"
                   /\ w.trace[i] = "route_called" =>
                          w.trace[i - 1] = "lookup_returned"
                   /\ w.trace[i] = "http_request" => Before(w, i, {"route_called"})
                   /\ w.trace[i] = "log_called" =>
                          w.trace[i - 1] \in {"route_returned", "route_raised",
                                              "lookup_absent", "lookup_raised",
                                              "log_raised", "classify_raised"}
                   /\ Before(w, i, {"log_called"}) =>
                          w.trace[i] \in {"log_called", "log_returned", "log_raised"}

\* C14 witness: a workflow went through all four steps, HTTP request included.
C14_Witness ==
    \E p \in Workflows :
        /\ workflow[p].pc = "done"
        /\ InTrace(workflow[p], "backend_returned")
        /\ InTrace(workflow[p], "http_request")
        /\ InTrace(workflow[p], "route_returned")
        /\ workflow[p].trace[Len(workflow[p].trace)] = "log_returned"

\* The router returned a RoutingResult with success=true for the ticket.
Delivered(w) == w.routed.kind = "RoutingResult" /\ w.routed.success

\* C28: a finished workflow's ticket has status ROUTED exactly when the router
\* returned success=true for it; a delivered ticket never ends FAILED.
C28_RoutedIffDelivered ==
    \A p \in Workflows :
        workflow[p].pc = "done" =>
            (workflow[p].status = "routed" <=> Delivered(workflow[p]))

\* What holds: a finished ticket with status ROUTED was delivered, and a
\* delivered ticket ends FAILED only when its audit-log write raised.
RoutedOnlyIfDelivered ==
    \A p \in Workflows :
        workflow[p].pc = "done" =>
            /\ workflow[p].status = "routed" => Delivered(workflow[p])
            /\ (Delivered(workflow[p]) /\ workflow[p].status # "routed") =>
                   /\ workflow[p].status = "failed"
                   /\ InTrace(workflow[p], "log_raised")

\* C29: process_ticket_workflow never raises, and the ticket it returns has a
\* terminal status, ROUTED or FAILED, never RECEIVED or CLASSIFIED, whatever the
\* classification, the mapping lookup, the router and the audit-log write do.
C29_WorkflowReturnsTerminalStatus ==
    \A p \in Workflows :
        /\ workflow[p].pc \in {"new", "classifying", "awaiting_lookup", "awaiting_http",
                               "awaiting_log", "awaiting_log_in_except", "done"}
        /\ workflow[p].pc = "done" => workflow[p].status \in {"routed", "failed"}
        /\ workflow[p].pc \in {"awaiting_log", "awaiting_log_in_except"} =>
               workflow[p].status \in {"routed", "failed"}

\* C29 witness: the router raised, the audit-log write of the except clause
\* raised as well, and the workflow returned the ticket FAILED; another workflow
\* had its mapping lookup raise.
C29_Witness ==
    \E p, q \in Workflows :
        /\ workflow[p].pc = "done"
        /\ InTrace(workflow[p], "route_raised")
        /\ workflow[p].trace[Len(workflow[p].trace)] = "log_raised"
        /\ workflow[p].status = "failed"
        /\ workflow[p].logged = "None"
        /\ workflow[q].pc = "done"
        /\ InTrace(workflow[q], "lookup_raised")
        /\ workflow[q].status = "failed"

(***************************************************************************)
(* Claims about the team-mapping lookup (under SpecLookup)                  *)
(***************************************************************************)
LookupCalled == event.phase = "lookup"

\* The department's active rows whose threshold is at or below the priority
Qualifying(rows, department, priority) ==
    {i \in SelectedRows(rows, department) :
        priority_values(rows[i].priority_threshold) <= priority_values(priority)}

\* C30: when at least one active row of the department has a threshold at or
\* below the ticket's priority (low < medium < high < critical), the lookup
\* returns a row with the highest such threshold.
C30_HighestQualifyingThreshold ==
    (LookupCalled /\ Qualifying(team_mapping_rows, event.endpoint.department,
                                event.endpoint.priority) # {}) =>
        /\ event.out \in Qualifying(team_mapping_rows, event.endpoint.department,
                                    event.endpoint.priority)
        /\ \A i \in Qualifying(team_mapping_rows, event.endpoint.department,
                                event.endpoint.priority) :
               priority_values(team_mapping_rows[i].priority_threshold)
                   <= priority_values(team_mapping_rows[event.out].priority_threshold)

\* What holds of the lookup: it returns None exactly when the department has no
\* active row, and otherwise an active row of the department, one whose
\* threshold the priority reaches whenever there is such a row.
LookupReturnsQualifyingRow ==
    LookupCalled =>
        IF SelectedRows(team_mapping_rows, event.endpoint.department) = {}
        THEN event.out = 0
        ELSE /\ event.out \in SelectedRows(team_mapping_rows, event.endpoint.department)
             /\ Qualifying(team_mapping_rows, event.endpoint.department,
                           event.endpoint.priority) # {} =>
                    event.out \in Qualifying(team_mapping_rows, event.endpoint.department,
                                            event.endpoint.priority)

====
